---- MODULE Spec2Model ----
(***************************************************************************)
(* A model of FLUPS (Fourier-based Library of Unbounded Poisson Solvers):  *)
(* the Topology sizes, the ordering of the 1-D plans, the life cycle of a  *)
(* Solver (construction, setup, solve, destruction) and the topology       *)
(* switches (transposes) between two pencil decompositions.                *)
(***************************************************************************)
EXTENDS Integers, Naturals, Sequences, FiniteSets, TLC

VARIABLES
    plan,       \* Solver::_sort_plans: the array of three plans being ordered
    sortpc,     \* "unsorted" | "sorted" | "failed" (the FLUPS_CHECK aborted)
    topo,       \* Topology: the fields of one topology object on one rank
    fftw,       \* the FFTW library: calls to init_threads / cleanup_threads
    comms,      \* the MPI communicators: id -> [owner, frees]
    solver,     \* Solver objects: id -> record of the fields of the object
    REORDER_RANKS, \* the build option: setup() reorders the ranks
    sw,         \* SwitchTopo: the fields of the object, on every rank
    swpc,       \* "built" | "aborted" | "executed" | "undefined"
    v,          \* SwitchTopo::execute: the data buffer of every rank
    xfer,       \* the executions done: sign and amounts communicated
    metis,      \* Solver::_reorder_metis on rank 0: the partitioning loop
    mem,        \* Solver::solve on one rank: the buffers of the user and _data
    col,        \* SwitchTopo_a2a: the search of the colours, on every rank
    nb,         \* SwitchTopo_nb::execute: the requests and buffers of every rank
    a2a         \* SwitchTopo_a2a: the counts, offsets and calls of every rank

vars == <<plan, sortpc, topo, fftw, comms, solver, REORDER_RANKS, sw, swpc, v, xfer,
          metis, mem, col, nb, a2a>>

\* the variables of the other parts of the program, for each part
auxvars == <<metis, mem, col, nb, a2a>>

\* ------------------------------------------------------------------------
\* bounds
\* ------------------------------------------------------------------------
MaxPlanType == 3
MaxNglob == 5
MaxSolvers == 2
MaxExtent == 3
MaxShift == 1
MaxExecutes == 2
MaxSolves == 2
MaxValue == 1
ColSize == 3
A2aExtent == 5

\* the largest number of components of a field
MaxLda == 3
MetisSize == 3
CommSize == 2

\* ------------------------------------------------------------------------
\* generic helpers
\* ------------------------------------------------------------------------
Dirs == 0 .. 2

Max(a, b) == IF a >= b THEN a ELSE b

Min(a, b) == IF a <= b THEN a ELSE b

\* ========================================================================
\* Solver::_sort_plans
\* ========================================================================
\* the values a plan type can take; the largest one stands for EMPTY
PlanTypes == 0 .. MaxPlanType

EMPTY == MaxPlanType

INT_MAX == 2147483647

\* a plan object: the direction it was created for and its type (priority)
Plans == [dimID : Dirs, type : PlanTypes]

\* the first loop: the index of the first minimum of the three priorities
sort_id_min(priority) ==
    LET step(acc, id) ==
            IF priority[id] < acc.val_min
            THEN [id_min |-> id, val_min |-> priority[id]]
            ELSE acc
        a0 == step([id_min |-> 0, val_min |-> INT_MAX], 0)
        a1 == step(a0, 1)
        a2 == step(a1, 2)
    IN  a2.id_min

swap(arr, i, j) == [arr EXCEPT ![i] = arr[j], ![j] = arr[i]]

\* a faulty variant: the second comparison is dropped
sort_last_two_kept(p, priority) == p

\* the second comparison: order the two remaining plans
sort_last_two(p, priority) ==
    IF priority[1] > priority[2] THEN swap(p, 1, 2) ELSE p

\* the array of plans after the two comparisons
_sort_plans(p) ==
    LET priority == [id \in Dirs |-> p[id].type]
        id_min == sort_id_min(priority)
    IN  IF id_min = 0
        THEN sort_last_two(p, priority)
        ELSE sort_last_two(swap(p, id_min, 0), swap(priority, id_min, 0))

\* the final FLUPS_CHECK of _sort_plans
sort_check(p) == p[0].type <= p[1].type /\ p[1].type <= p[2].type

\* FFTW_Solver::_sort_plans: the minimum is moved to the front, and the two
\* others are exchanged when priority[0] > priority[3 - id_min] and the
\* minimum was at the index 1
FFTW_Solver_sort_plans(p) ==
    LET priority == [id \in Dirs |-> p[id].type]
        id_min == sort_id_min(priority)
    IN  IF id_min = 0
        THEN IF priority[1] > priority[2] THEN swap(p, 1, 2) ELSE p
        ELSE LET p1 == swap(p, id_min, 0)
             IN  IF priority[0] > priority[3 - id_min] /\ id_min = 1
                 THEN swap(p1, 1, 2) ELSE p1

\* ========================================================================
\* Topology
\* ========================================================================
sizeofDouble == 8

FLUPS_ALIGNMENT == 16

\* the alignments (in bytes) a topology can be asked for
Alignments == {8, 16, 24, 32}

\* the process grids of a communicator of CommSize ranks

\* tuples of the source are indexed from 0
Vec3(a, b, c) == [id \in Dirs |-> CASE id = 0 -> a [] id = 1 -> b [] OTHER -> c]

Nprocs == {np \in [Dirs -> 1 .. CommSize] : np[0] * np[1] * np[2] = CommSize}

Ranks == 0 .. CommSize - 1

\* ranksplit with the default axproc = (0,1,2): rank -> rankd
ranksplit(rank, nproc) ==
    Vec3(rank % nproc[0],
         (rank \div nproc[0]) % nproc[1],
         rank \div (nproc[0] * nproc[1]))

\* rankindex: rankd -> rank
rankindex(rankd, nproc) ==
    rankd[0] + nproc[0] * (rankd[1] + nproc[1] * rankd[2])

\* Topology::cmpt_nbyproc: the last process of a direction takes the rest
cmpt_nbyproc(t, id) ==
    IF t.rankd[id] < t.nproc[id] - 1
    THEN t.nglob[id] \div t.nproc[id]
    ELSE t.nglob[id] - (t.nglob[id] \div t.nproc[id]) * (t.nproc[id] - 1)

\* Topology::cmpt_start_id: the global index of the first local point
cmpt_start_id(t, id) == t.rankd[id] * (t.nglob[id] \div t.nproc[id])

\* the padding added to nloc in the fast direction
cmpt_pad(nloc, nf, alignment) ==
    LET modulo == (nloc * nf * sizeofDouble) % alignment
        delta == (alignment - modulo) \div sizeofDouble
    IN  IF modulo = 0 THEN 0 ELSE delta \div nf

\* Topology::cmpt_sizes: _nloc and _nmem from _rankd, _nglob and _nproc
cmpt_sizes(t) ==
    LET nloc == [id \in Dirs |-> cmpt_nbyproc(t, id)]
        nmem == [id \in Dirs |->
                    IF id = t.axis
                    THEN nloc[id] + cmpt_pad(nloc[id], t.nf, t.alignment)
                    ELSE nloc[id]]
    IN  [t EXCEPT !.nloc = nloc, !.nmem = nmem]

\* Topology::Topology, on the process of the given rank in comm
Topology(axis, nglob, nproc, isComplex, alignment, comm, rank) ==
    cmpt_sizes([axis |-> axis, nf |-> IF isComplex THEN 2 ELSE 1,
                nglob |-> nglob, nproc |-> nproc, alignment |-> alignment,
                comm |-> comm, rankd |-> ranksplit(rank, nproc),
                nloc |-> Vec3(0, 0, 0), nmem |-> Vec3(0, 0, 0)])

\* Topology::change_comm, the process having rank newrank in the new comm
change_comm(t, comm, newrank) ==
    cmpt_sizes([t EXCEPT !.comm = comm, !.rankd = ranksplit(newrank, t.nproc)])

\* the global sizes of the topologies that are built
Nglobs == {Vec3(a, b, 2) : a \in 1 .. MaxNglob, b \in 1 .. 2}

\* Topology::memsize: the number of doubles of the local memory
memsize(t) == t.nmem[0] * t.nmem[1] * t.nmem[2] * t.nf

\* localIndex: the position in memory (fast axis axtrg, sizes size) of the
\* point whose indexes along (axsrc, axsrc+1, axsrc+2) are i0, i1, i2
localIndex(axsrc, i0, i1, i2, axtrg, size, nf) ==
    LET i == Vec3(i0, i1, i2)
        dax0 == (3 + axtrg - axsrc) % 3
        dax1 == (dax0 + 1) % 3
        dax2 == (dax0 + 2) % 3
        ax0 == axtrg
        ax1 == (ax0 + 1) % 3
    IN  i[dax0] * nf + size[ax0] * nf * (i[dax1] + size[ax1] * i[dax2])

\* localSplit with axis 0: the three indexes of the block bid
localSplit(bid, nBlock) ==
    IF nBlock[0] <= 0 \/ nBlock[1] <= 0 THEN Vec3(0, 0, 0)
    ELSE Vec3(bid % nBlock[0],
              (bid \div nBlock[0]) % nBlock[1],
              bid \div (nBlock[0] * nBlock[1]))

SetMax(S) == CHOOSE x \in S : \A y \in S : y <= x

\* Topology::cmpt_intersect_id: the local range [start, end) of this
\* topology that is inside the other one, once shifted
cmpt_intersect_id(t, shift, other) ==
    LET oid_global(id, i) == cmpt_start_id(t, id) + i + shift[id]
        low(id) == {i \in 0 .. t.nloc[id] - 1 : oid_global(id, i) <= 0}
        in(id) == {i \in 0 .. t.nloc[id] - 1 : oid_global(id, i) < other.nglob[id]}
    IN  [start |-> [id \in Dirs |-> IF low(id) = {} THEN 0 ELSE SetMax(low(id))],
         end |-> [id \in Dirs |-> IF in(id) = {} THEN 0 ELSE SetMax(in(id)) + 1]]

\* the remainder of the C language (the sign of the dividend), b # 0
CRem(a, b) ==
    LET aa == IF a < 0 THEN 0 - a ELSE a
        bb == IF b < 0 THEN 0 - b ELSE b
    IN  IF a < 0 THEN 0 - (aa % bb) ELSE aa % bb

\* the quotient of the C language (truncation), b # 0
CDiv(a, b) ==
    LET aa == IF a < 0 THEN 0 - a ELSE a
        bb == IF b < 0 THEN 0 - b ELSE b
    IN  IF (a < 0) = (b < 0) THEN aa \div bb ELSE 0 - (aa \div bb)

RECURSIVE gcd(_, _)
gcd(a, b) == IF a = 0 THEN b ELSE gcd(CRem(b, a), a)

RECURSIVE SumTo(_, _)
SumTo(f, n) == IF n < 0 THEN 0 ELSE f[n] + SumTo(f, n - 1)

\* the sum of f over the ranks (MPI_Allreduce with MPI_SUM)
Allreduce(f) == SumTo(f, CommSize - 1)

RECURSIVE gcdTo(_, _)
gcdTo(f, n) == IF n = 0 THEN f[0] ELSE gcd(gcdTo(f, n - 1), f[n])

\* the exchanged size of a direction: the send extents summed over the ranks
cmpt_exSize(istart, iend) ==
    [id \in Dirs |-> Allreduce([r \in Ranks |-> iend[r][id] - istart[r][id]])]

\* the block size of a direction: the gcd, over the ranks, of the gcd of the
\* send and receive extents, the last rank of the direction giving one up
\* when the exchanged size is odd
cmpt_nByBlock(tin, tout, istart, iend, ostart, oend, exSize) ==
    [id \in Dirs |->
        LET npoints(r) ==
                LET isend0 == iend[r][id] - istart[r][id]
                    osend0 == oend[r][id] - ostart[r][id]
                    isend == IF tin[r].rankd[id] = tin[r].nproc[id] - 1
                             THEN isend0 - (exSize[id] % 2) ELSE isend0
                    osend == IF tout[r].rankd[id] = tout[r].nproc[id] - 1
                             THEN osend0 - (exSize[id] % 2) ELSE osend0
                IN  gcd(isend, osend)
        IN  gcdTo([r \in Ranks |-> npoints(r)], CommSize - 1)]

\* the number of blocks of a process
nBlocks(nBlock) == nBlock[0] * nBlock[1] * nBlock[2]

BlockIds(nBlock) == 0 .. nBlocks(nBlock) - 1

\* cmpt_blockIndexes: the number of blocks of a direction on a process
cmpt_nBlock(start, end, nByBlock) ==
    [id \in Dirs |-> CDiv(end[id] - start[id], nByBlock[id])]

\* cmpt_blockIndexes: the global index of the first block of the process r,
\* the blocks of the processes before it in the direction being counted
cmpt_blockIDStart(t, nBlockEachProc, r) ==
    [id \in Dirs |->
        SumTo([ir \in 0 .. t[r].nproc[id] - 1 |->
                  nBlockEachProc[rankindex([t[r].rankd EXCEPT ![id] = ir],
                                           t[r].nproc)][id]],
              t[r].rankd[id] - 1)]

\* cmpt_blockSize: the size of the block ib, the last block of a direction
\* taking what is left of the range
cmpt_blockSize(nBlock, nByBlock, start, end, ib) ==
    [id \in Dirs |->
        IF ib[id] = nBlock[id] - 1
        THEN (end[id] - start[id]) - ib[id] * nByBlock[id]
        ELSE nByBlock[id]]

\* cmpt_blockDestRankAndTag, one direction: walk the processes of the
\* direction until enough blocks have been counted
RECURSIVE findDestRank(_, _, _, _, _, _, _)
findDestRank(id, ir, block_count, bidv, destrankd, nproc, nBlockEachProc) ==
    LET rkd == [destrankd EXCEPT ![id] = ir]
        count == block_count + nBlockEachProc[rankindex(rkd, nproc)][id]
    IN  IF bidv[id] < count \/ ir = nproc[id] - 1
        THEN [rankd |-> rkd, local_bid |-> bidv[id] - block_count]
        ELSE findDestRank(id, ir + 1, count, bidv, destrankd, nproc, nBlockEachProc)

\* cmpt_blockDestRankAndTag: the process of the other topology that holds
\* the block of global index bidv, and the index of the block over there
cmpt_blockDestRankAndTag(bidv, nproc, nBlockEachProc) ==
    LET d0 == findDestRank(0, 0, 0, bidv, Vec3(0, 0, 0), nproc, nBlockEachProc)
        d1 == findDestRank(1, 0, 0, bidv, d0.rankd, nproc, nBlockEachProc)
        d2 == findDestRank(2, 0, 0, bidv, d1.rankd, nproc, nBlockEachProc)
        destrank == rankindex(d2.rankd, nproc)
        dest_nBlock == nBlockEachProc[destrank]
    IN  [rank |-> destrank,
         tag |-> localIndex(0, d0.local_bid, d1.local_bid, d2.local_bid,
                            0, dest_nBlock, 1)]

\* the blocks of one side of a switch: for each process the number of
\* blocks, and for each block its size, its destination and its tag
cmpt_blocks(t, other, start, end, nByBlock, nBlock, nBlockOther) ==
    [r \in Ranks |->
        LET blockIDStart == cmpt_blockIDStart(t, nBlock, r)
        IN  [bid \in BlockIds(nBlock[r]) |->
                LET ib == localSplit(bid, nBlock[r])
                    dest == cmpt_blockDestRankAndTag(
                                [id \in Dirs |-> ib[id] + blockIDStart[id]],
                                other[r].nproc, nBlockOther)
                IN  [size |-> cmpt_blockSize(nBlock[r], nByBlock, start[r], end[r], ib),
                     destRank |-> dest.rank, destTag |-> dest.tag]]]

\* get_blockMemSize: the memory of one block in the buffers, every block
\* having the size of the largest one, padded to the alignment
get_blockMemSize(nByBlock, exSize, nf) ==
    LET total == (nByBlock[0] + (exSize[0] % 2)) * (nByBlock[1] + (exSize[1] % 2))
                    * (nByBlock[2] + (exSize[2] % 2)) * nf
        modulo == (total * sizeofDouble) % FLUPS_ALIGNMENT
    IN  total + (IF modulo = 0 THEN 0
                 ELSE (FLUPS_ALIGNMENT - modulo) \div sizeofDouble)

\* the number of blocks of a process that go to the process dest
countTo(blocks, dest) == Cardinality({bid \in DOMAIN blocks : blocks[bid].destRank = dest})

\* SwitchTopo_a2a::_setup_subComm: the count sent to each process
setup_count(blocks, blockMem) ==
    [r \in Ranks |-> [dest \in Ranks |-> blockMem * countTo(blocks[r], dest)]]

\* the constructor of a switch between the topologies tin and tout (given
\* on every process), on all the processes
SwitchTopo(tin, tout, shift) ==
    LET ii == [r \in Ranks |-> cmpt_intersect_id(tin[r], shift, tout[r])]
        oo == [r \in Ranks |->
                  cmpt_intersect_id(tout[r], [id \in Dirs |-> 0 - shift[id]], tin[r])]
        istart == [r \in Ranks |-> ii[r].start]
        iend == [r \in Ranks |-> ii[r].end]
        ostart == [r \in Ranks |-> oo[r].start]
        oend == [r \in Ranks |-> oo[r].end]
        exSize == cmpt_exSize(istart, iend)
        nByBlock == cmpt_nByBlock(tin, tout, istart, iend, ostart, oend, exSize)
        valid == \A id \in Dirs : nByBlock[id] > 0
        inBlock == [r \in Ranks |->
                       IF valid THEN cmpt_nBlock(istart[r], iend[r], nByBlock)
                       ELSE Vec3(0, 0, 0)]
        onBlock == [r \in Ranks |->
                       IF valid THEN cmpt_nBlock(ostart[r], oend[r], nByBlock)
                       ELSE Vec3(0, 0, 0)]
        iBlocks == cmpt_blocks(tin, tout, istart, iend, nByBlock, inBlock, onBlock)
        oBlocks == cmpt_blocks(tout, tin, ostart, oend, nByBlock, onBlock, inBlock)
        blockMem == get_blockMemSize(nByBlock, exSize, tout[0].nf)
    IN  [topo_in |-> tin, topo_out |-> tout, shift |-> shift,
         istart |-> istart, iend |-> iend, ostart |-> ostart, oend |-> oend,
         exSize |-> exSize, nByBlock |-> nByBlock, valid |-> valid,
         inBlock |-> inBlock, onBlock |-> onBlock,
         iBlocks |-> iBlocks, oBlocks |-> oBlocks,
         selfBlockN |-> [r \in Ranks |-> countTo(iBlocks[r], r)],
         oselfBlockN |-> [r \in Ranks |-> countTo(oBlocks[r], r)],
         blockMem |-> blockMem,
         i2o_count |-> setup_count(iBlocks, blockMem),
         o2i_count |-> setup_count(oBlocks, blockMem)]

\* ------------------------------------------------------------------------
\* SwitchTopo_nb::execute, on all the processes
\* ------------------------------------------------------------------------
\* the content of a double: 0 after the memset, the positive identifier of
\* an initial value, or Junk for a value that was never written
Junk == 0 - 1

\* execute() taking the pointers of FLUPS_FORWARD whatever the sign
execute_roles_forward(s, sign) ==
    [topo_in |-> s.topo_in, topo_out |-> s.topo_out,
     send_nBlock |-> s.inBlock, recv_nBlock |-> s.onBlock,
     istart |-> s.istart, ostart |-> s.ostart,
     sendBlocks |-> s.iBlocks, recvBlocks |-> s.oBlocks,
     send_count |-> s.i2o_count, recv_count |-> s.o2i_count]

\* the pointers taken by execute() according to the sign
execute_roles(s, sign) ==
    IF sign = "FLUPS_FORWARD"
    THEN [topo_in |-> s.topo_in, topo_out |-> s.topo_out,
          send_nBlock |-> s.inBlock, recv_nBlock |-> s.onBlock,
          istart |-> s.istart, ostart |-> s.ostart,
          sendBlocks |-> s.iBlocks, recvBlocks |-> s.oBlocks,
          send_count |-> s.i2o_count, recv_count |-> s.o2i_count]
    ELSE [topo_in |-> s.topo_out, topo_out |-> s.topo_in,
          send_nBlock |-> s.onBlock, recv_nBlock |-> s.inBlock,
          istart |-> s.ostart, ostart |-> s.istart,
          sendBlocks |-> s.oBlocks, recvBlocks |-> s.iBlocks,
          send_count |-> s.o2i_count, recv_count |-> s.i2o_count]

\* the filling of the buffer of the block bid from the memory vr, the fast
\* axis of the sending topology t being the fast index of the buffer
pack(vr, t, start, nByBlock, nBlock, bid, size) ==
    LET ax0 == t.axis
        ax1 == (ax0 + 1) % 3
        ax2 == (ax0 + 2) % 3
        ib == localSplit(bid, nBlock)
        my_v == localIndex(ax0, start[ax0] + ib[ax0] * nByBlock[ax0],
                           start[ax1] + ib[ax1] * nByBlock[ax1],
                           start[ax2] + ib[ax2] * nByBlock[ax2], ax0, t.nmem, t.nf)
        nmax == size[ax0] * t.nf
    IN  [k \in 0 .. nmax * size[ax1] * size[ax2] - 1 |->
            LET id == k \div nmax
                i0 == k % nmax
                i1 == id % size[ax1]
                i2 == id \div size[ax1]
                idx == my_v + localIndex(ax0, 0, i1, i2, ax0, t.nmem, t.nf) + i0
            IN  IF idx \in DOMAIN vr THEN vr[idx] ELSE Junk]

\* the copy of the received buffer data of the block bid into the memory
\* of the receiving topology t: the doubles written and their values
unpack(data, ax0, t, start, nByBlock, nBlock, bid, size) ==
    LET ax1 == (ax0 + 1) % 3
        ax2 == (ax0 + 2) % 3
        ibv == localSplit(bid, nBlock)
        my_v == localIndex(ax0, start[ax0] + ibv[ax0] * nByBlock[ax0],
                           start[ax1] + ibv[ax1] * nByBlock[ax1],
                           start[ax2] + ibv[ax2] * nByBlock[ax2], t.axis, t.nmem, t.nf)
        stride == localIndex(ax0, 1, 0, 0, t.axis, t.nmem, t.nf)
    IN  {[idx |-> my_v + localIndex(ax0, 0, i1, i2, t.axis, t.nmem, t.nf)
                     + i0 * stride + c,
          val |-> LET k == (i1 + size[ax1] * i2) * size[ax0] * t.nf + i0 * t.nf + c
                  IN  IF k \in DOMAIN data THEN data[k] ELSE Junk] :
            i0 \in 0 .. size[ax0] - 1, i1 \in 0 .. size[ax1] - 1,
            i2 \in 0 .. size[ax2] - 1, c \in 0 .. t.nf - 1}

\* the send blocks whose data arrives in the receive block bid of the
\* process r: sent by the source of the block with the tag bid (for a self
\* block, written by the process in its own receive buffer)
senders(x, r, bid) ==
    LET src == x.recvBlocks[r][bid].destRank
    IN  {b \in DOMAIN x.sendBlocks[src] :
            /\ x.sendBlocks[src][b].destRank = r
            /\ x.sendBlocks[src][b].destTag = bid}

\* every receive is matched by one send and every send by one receive:
\* otherwise a process waits for ever or reads a block that never came
matched(x) ==
    /\ \A r \in Ranks : \A bid \in DOMAIN x.recvBlocks[r] :
            Cardinality(senders(x, r, bid)) = 1
    /\ \A q \in Ranks : \A b \in DOMAIN x.sendBlocks[q] :
            LET dest == x.sendBlocks[q][b].destRank
                tag == x.sendBlocks[q][b].destTag
            IN  /\ tag \in DOMAIN x.recvBlocks[dest]
                /\ x.recvBlocks[dest][tag].destRank = q

\* the memory of the process r after the execution: the memset over the
\* output topology, then the copy of every block received
execute_rank(s, x, vv, r) ==
    LET buffer(bid) ==
            LET src == x.recvBlocks[r][bid].destRank
                b == CHOOSE b \in senders(x, r, bid) : TRUE
            IN  pack(vv[src], x.topo_in[src], x.istart[src], s.nByBlock,
                     x.send_nBlock[src], b, x.sendBlocks[src][b].size)
        written == UNION {unpack(buffer(bid), x.topo_in[r].axis, x.topo_out[r],
                                 x.ostart[r], s.nByBlock, x.recv_nBlock[r], bid,
                                 x.recvBlocks[r][bid].size) :
                             bid \in DOMAIN x.recvBlocks[r]}
    IN  [idx \in DOMAIN vv[r] |->
            IF \E w \in written : w.idx = idx
            THEN (CHOOSE w \in written : w.idx = idx).val
            ELSE IF idx < memsize(x.topo_out[r]) THEN 0 ELSE vv[r][idx]]

\* SwitchTopo_nb::execute
execute(s, vv, sign) ==
    LET x == execute_roles(s, sign)
    IN  [r \in Ranks |-> execute_rank(s, x, vv, r)]

\* the amounts handed to the communication by an execution: the doubles of
\* the requests started by each process, and the counts of each process
\* towards each other one
traffic(s, sign) ==
    LET x == execute_roles(s, sign)
        started(blocks, r) ==
            s.blockMem * Cardinality({b \in DOMAIN blocks[r] : blocks[r][b].destRank # r})
    IN  [sign |-> sign,
         sent |-> [r \in Ranks |-> started(x.sendBlocks, r)],
         received |-> [r \in Ranks |-> started(x.recvBlocks, r)],
         send_count |-> x.send_count,
         recv_count |-> x.recv_count]

\* ========================================================================
\* Solver
\* ========================================================================
SolverIds == 1 .. MaxSolvers

\* communicators: 0 is the communicator of the user's topology, the graph
\* communicator created by the setup() of solver s is s
UserComm == 0

CommIds == 0 .. MaxSolvers

\* one operation performed by setup() or solve()
Ev(op, ip, arg) == [op |-> op, ip |-> ip, arg |-> arg]

\* the events of a loop for (ip = 0; ip < n; ip++)
Loop(n, body(_)) == [k \in 1 .. n |-> body(k - 1)]

\* the events of a loop for (ip = n-1; ip >= 0; ip--)
LoopDown(n, body(_)) == [k \in 1 .. n |-> body(n - k)]

RECURSIVE Flatten(_)
Flatten(ss) == IF ss = <<>> THEN <<>> ELSE Head(ss) \o Flatten(Tail(ss))

\* nf is 1 for a topology of real data and 2 for one of complex data
NullTopo == [alive |-> FALSE, comm |-> UserComm, nf |-> 1]

NewTopo(comm) == [alive |-> TRUE, comm |-> comm, nf |-> 1]

\* Topology::switch2complex and Topology::switch2real
switch2complex(t) == [t EXCEPT !.nf = 2]

switch2real(t) == [t EXCEPT !.nf = 1]

isComplexTopo(t) == t.nf = 2

\* the boundary conditions a solver is built with: the type of the plan of
\* each direction and whether that plan is real-to-complex
SolverPlans ==
    { [id \in Dirs |-> [dimID |-> id, type |-> ty[id], isr2c |-> ty[id] = 1]] :
        ty \in {Vec3(1, 0, 2), Vec3(0, 0, 0), Vec3(0, EMPTY, 1)} }

\* a Solver that has not been constructed yet
NoSolver ==
    [state |-> "none", odiff |-> 0, ndim |-> 0,
     plan_forward |-> [id \in Dirs |-> [dimID |-> id, type |-> EMPTY, isr2c |-> FALSE]],
     plans |-> FALSE,
     plan_green |-> [id \in Dirs |-> "NULL"],
     topo_phys |-> NullTopo,
     topo_hat |-> [id \in Dirs |-> NullTopo],
     topo_green |-> [id \in Dirs |-> NullTopo],
     switchtopo |-> [id \in Dirs |-> "NULL"],
     switchtopo_green |-> [id \in Dirs |-> "NULL"],
     green |-> FALSE, data |-> FALSE, sendBuf |-> FALSE, recvBuf |-> FALSE,
     graph_comm |-> FALSE, log |-> <<>>]

\* the number of directions that are not EMPTY
cmpt_ndim(p) == 3 - Cardinality({id \in Dirs : p[id].type = EMPTY})

\* Solver::_init_plansAndTopos for the field: topologies and switchtopos
init_topo_hat(ndim, comm) ==
    [ip \in Dirs |-> IF ip < ndim THEN NewTopo(comm) ELSE NullTopo]

\* FFTW_plan_dim::get_isNowComplex: the data are complex after a plan when
\* they were before it or when the plan is real-to-complex
get_isNowComplex(p, isComplexBefore) == isComplexBefore \/ p.isr2c

\* Solver::_init_plansAndTopos, the dry run: whether the data are complex
\* once the plans 0 .. ip are executed
RECURSIVE dry_run(_, _)
dry_run(planmap, ip) ==
    IF ip < 0 THEN FALSE
    ELSE get_isNowComplex(planmap[ip], dry_run(planmap, ip - 1))

\* Solver::_init_plansAndTopos, the flag of the topology topomap[ip]: it is
\* created in the state of the data after the plan ip, and reset to real
\* when the plan is real-to-complex
init_topo_nf(planmap, t, ip) ==
    LET t0 == IF dry_run(planmap, ip) THEN switch2complex(t) ELSE switch2real(t)
        t1 == IF planmap[ip].isr2c THEN switch2complex(switch2real(t0)) ELSE t0
    IN  IF planmap[ip].isr2c THEN switch2real(t1) ELSE t1

\* Solver::_init_plansAndTopos for the field: the intermediate topologies
init_topo_hat_field(planmap, ndim, comm) ==
    [ip \in Dirs |-> IF ip < ndim THEN init_topo_nf(planmap, NewTopo(comm), ip)
                                  ELSE NullTopo]

init_switchtopo(ndim) == [ip \in Dirs |-> IF ip < ndim THEN "new" ELSE "NULL"]

\* Solver::_init_plansAndTopos for Green: a switchtopo for ip+1, ip < ndim-1
init_switchtopo_green(ndim) ==
    [ip \in Dirs |-> IF 1 <= ip /\ ip <= ndim - 1 THEN "new" ELSE "NULL"]

\* Solver::Solver, the part that builds the object
Solver(topo_comm, bc, orderDiff) ==
    LET pf == _sort_plans(bc)
        ndim == cmpt_ndim(pf)
    IN  [NoSolver EXCEPT
            !.state = "constructed", !.odiff = orderDiff, !.ndim = ndim,
            !.plan_forward = pf, !.plans = TRUE,
            !.plan_green = [id \in Dirs |-> "new"],
            !.topo_phys = NewTopo(topo_comm),
            !.topo_hat = init_topo_hat_field(pf, ndim, topo_comm),
            !.topo_green = init_topo_hat(ndim, topo_comm),
            !.switchtopo = init_switchtopo(ndim),
            !.switchtopo_green = init_switchtopo_green(ndim)]

emit(s, evs) == [s EXCEPT !.log = @ \o evs]

\* the REORDER_RANKS part of setup(): graph_comm is given to the topologies
setup_reorder(s, graph_comm, changeTopoComm) ==
    LET s1 == [s EXCEPT
                 !.graph_comm = TRUE,
                 !.topo_hat = [i \in Dirs |->
                     IF i < s.ndim THEN [@[i] EXCEPT !.comm = graph_comm] ELSE @[i]],
                 !.topo_green = [i \in Dirs |->
                     IF i < s.ndim THEN [@[i] EXCEPT !.comm = graph_comm] ELSE @[i]],
                 !.topo_phys = IF changeTopoComm
                               THEN [@ EXCEPT !.comm = graph_comm] ELSE @]
    IN  emit(s1, <<Ev("MPI_Comm_create", 0, "graph_comm")>>
                 \o Flatten(Loop(s.ndim, LAMBDA i :
                        <<Ev("change_comm", i, "topo_hat"),
                          Ev("change_comm", i, "topo_green")>>))
                 \o (IF changeTopoComm
                     THEN <<Ev("change_comm", 0, "topo_phys")>> ELSE <<>>))

\* Solver::_allocate_data for the Green function and for the field
_allocate_data_green(s) ==
    emit([s EXCEPT !.green = TRUE], <<Ev("malloc", 0, "green")>>)

_allocate_data_field(s) ==
    emit([s EXCEPT !.data = TRUE], <<Ev("malloc", 0, "data")>>)

\* Solver::_allocate_plans
_allocate_plans_green(s) ==
    emit([s EXCEPT !.plan_green =
                [ip \in Dirs |-> IF ip < s.ndim THEN "allocated" ELSE @[ip]]],
         Loop(s.ndim, LAMBDA ip : Ev("allocate_plan", ip, "plan_green")))

_allocate_plans(s, which) ==
    emit(s, Loop(s.ndim, LAMBDA ip : Ev("allocate_plan", ip, which)))

\* Solver::_allocate_switchTopo: the events of the setup of the switchtopos,
\* of the allocation of the two buffers and of setup_buffers
allocate_switchTopo_log(ntopo, st, which) ==
    Flatten(Loop(ntopo, LAMBDA id :
        IF st[id] # "NULL" THEN <<Ev("setup", id, which)>> ELSE <<>>))
    \o <<Ev("malloc", 0, "sendBuf"), Ev("malloc", 0, "recvBuf")>>
    \o Flatten(Loop(ntopo, LAMBDA id :
        IF st[id] # "NULL" THEN <<Ev("setup_buffers", id, which)>> ELSE <<>>))

allocate_switchTopo_state(ntopo, st) ==
    [id \in Dirs |-> IF id < ntopo /\ st[id] # "NULL" THEN "setup" ELSE st[id]]

_allocate_switchTopo_green(s) ==
    emit([s EXCEPT !.switchtopo_green = allocate_switchTopo_state(3, @),
                   !.sendBuf = TRUE, !.recvBuf = TRUE],
         allocate_switchTopo_log(3, s.switchtopo_green, "switchtopo_green"))

_allocate_switchTopo_field(s) ==
    emit([s EXCEPT !.switchtopo = allocate_switchTopo_state(s.ndim, @),
                   !.sendBuf = TRUE, !.recvBuf = TRUE],
         allocate_switchTopo_log(s.ndim, s.switchtopo, "switchtopo"))

\* Solver::_deallocate_switchTopo
_deallocate_switchTopo(s) ==
    emit([s EXCEPT !.sendBuf = FALSE, !.recvBuf = FALSE],
         <<Ev("free", 0, "sendBuf"), Ev("free", 0, "recvBuf")>>)

\* Solver::_delete_switchtopos, _delete_topologies and _delete_plans
_delete_switchtopos_green(s) ==
    emit([s EXCEPT !.switchtopo_green = [ip \in Dirs |-> "NULL"]],
         Loop(3, LAMBDA ip : Ev("delete", ip, "switchtopo_green")))

_delete_switchtopos(s) ==
    emit([s EXCEPT !.switchtopo = [ip \in Dirs |-> "NULL"]],
         Loop(3, LAMBDA ip : Ev("delete", ip, "switchtopo")))

_delete_topologies_green(s) ==
    emit([s EXCEPT !.topo_green = [ip \in Dirs |-> NullTopo]],
         Loop(3, LAMBDA ip : Ev("delete", ip, "topo_green")))

_delete_topologies(s) ==
    emit([s EXCEPT !.topo_hat = [ip \in Dirs |-> NullTopo]],
         Loop(3, LAMBDA ip : Ev("delete", ip, "topo_hat")))

_delete_plans_green(s) ==
    emit([s EXCEPT !.plan_green = [ip \in Dirs |-> "NULL"]],
         Loop(3, LAMBDA ip : Ev("delete", ip, "plan_green")))

\* the Green function is computed, then moved to the last field topology
_cmptGreenFunction(s) == emit(s, <<Ev("cmptGreenFunction", 0, "green")>>)

\* Solver::_finalizeGreenFunction: the last field topology is made complex
\* when one of the plans is real-to-complex, and real again when the last
\* plan is
_finalizeGreenFunction(s) ==
    LET last == s.ndim - 1
        t0 == IF \E id \in 0 .. last : s.plan_forward[id].isr2c
              THEN switch2complex(s.topo_hat[last]) ELSE s.topo_hat[last]
        t1 == IF s.plan_forward[last].isr2c THEN switch2real(t0) ELSE t0
    IN  emit([s EXCEPT !.topo_hat[last] = t1],
             <<Ev("finalizeGreenFunction", 0, "green")>>)

\* a faulty variant: the Green staging buffers are not released
setup_clean_green_keepBuf(s) ==
    _delete_plans_green(_delete_topologies_green(_delete_switchtopos_green(s)))

\* the part of setup() that releases what was only needed for Green
setup_clean_green(s) ==
    _delete_plans_green(_delete_topologies_green(
        _delete_switchtopos_green(_deallocate_switchTopo(s))))

\* the part of setup() that computes the Green function
setup_green(s) ==
    _finalizeGreenFunction(_cmptGreenFunction(_allocate_switchTopo_green(
        _allocate_plans_green(_allocate_data_green(s)))))

\* the part of setup() that allocates what the field needs
setup_field(s) ==
    LET s1 == _allocate_data_field(s)
        s2 == _allocate_plans(_allocate_plans(s1, "plan_forward"), "plan_backward")
        s3 == IF s.odiff # 0 THEN _allocate_plans(s2, "plan_backward_diff") ELSE s2
    IN  _allocate_switchTopo_field(s3)

\* Solver::setup
setup(s, graph_comm, changeTopoComm, reorder) ==
    LET s0 == [s EXCEPT !.log = <<>>]
        s1 == IF reorder THEN setup_reorder(s0, graph_comm, changeTopoComm) ELSE s0
    IN  [setup_field(setup_clean_green(setup_green(s1))) EXCEPT !.state = "ready"]

\* a faulty variant: the topology of a real-to-complex plan stays real once
\* the plan is executed
do_FFT_forward_keep_real(s) ==
    Flatten(Loop(s.ndim, LAMBDA ip :
        <<Ev("switchtopo", ip, "FORWARD"),
          Ev("execute_plan", ip, "FORWARD"),
          Ev("correct_plan", ip, "FORWARD")>>))

\* Solver::do_FFT, forward: transpose then transform, ip = 0 .. ndim-1
do_FFT_forward(s) ==
    Flatten(Loop(s.ndim, LAMBDA ip :
        <<Ev("switchtopo", ip, "FORWARD"),
          Ev("execute_plan", ip, "FORWARD"),
          Ev("correct_plan", ip, "FORWARD")>>
        \o (IF s.plan_forward[ip].isr2c
            THEN <<Ev("switch2complex", ip, "topo_hat")>> ELSE <<>>)))

\* a faulty variant: the backward loop runs ip = 0 .. ndim-1
do_FFT_backward_ascending(s, sign) ==
    Flatten(Loop(s.ndim, LAMBDA ip :
        <<Ev("correct_plan", ip, sign),
          Ev("execute_plan", ip, sign)>>
        \o (IF s.plan_forward[ip].isr2c
            THEN <<Ev("switch2real", ip, "topo_hat")>> ELSE <<>>)
        \o <<Ev("switchtopo", ip, "BACKWARD")>>))

\* Solver::do_FFT, backward (sign is BACKWARD or BACKWARD_DIFF):
\* transform then transpose, ip = ndim-1 .. 0
do_FFT_backward(s, sign) ==
    Flatten(LoopDown(s.ndim, LAMBDA ip :
        <<Ev("correct_plan", ip, sign),
          Ev("execute_plan", ip, sign)>>
        \o (IF s.plan_forward[ip].isr2c
            THEN <<Ev("switch2real", ip, "topo_hat")>> ELSE <<>>)
        \o <<Ev("switchtopo", ip, "BACKWARD")>>))

do_FFT(s, sign) ==
    IF sign = "FORWARD" THEN do_FFT_forward(s) ELSE do_FFT_backward(s, sign)

\* Solver::solve, the operations applied to the owned buffer once the
\* check on the type has passed
solve_ops(s, type) ==
    <<Ev("memset", 0, "data"), Ev("do_copy", 0, "FORWARD")>>
    \o do_FFT(s, "FORWARD")
    \o <<Ev("do_mult", 0, type)>>
    \o (IF type = "STD" THEN do_FFT(s, "BACKWARD")
                        ELSE do_FFT(s, "BACKWARD_DIFF"))
    \o <<Ev("do_copy", 0, "BACKWARD")>>

\* FLUPS_CHECK: a failed check prints its message and aborts the process
FLUPS_CHECK(cond, s, done) ==
    IF cond THEN s
    ELSE [s EXCEPT !.state = "aborted", !.log = done \o <<Ev("abort", 0, "FLUPS_CHECK")>>]

\* the topology the transpose ip comes from: the physical one for ip = 0
switchtopo_in(s, ip) == IF ip = 0 THEN s.topo_phys ELSE s.topo_hat[ip - 1]

\* SwitchTopo_nb::execute and SwitchTopo_a2a::execute, the check on the
\* two topologies of the transpose ip
execute_check(s, ip, done) ==
    FLUPS_CHECK(isComplexTopo(switchtopo_in(s, ip)) = isComplexTopo(s.topo_hat[ip]),
                s, done)

\* Solver::solve and Solver::do_FFT on the topologies: the operations ops
\* are performed from the k-th on, until a check fails
RECURSIVE run_ops(_, _, _)
run_ops(s, ops, k) ==
    IF s.state = "aborted" THEN s
    ELSE IF k > Len(ops) THEN [s EXCEPT !.log = ops]
    ELSE LET e == ops[k]
         IN  CASE e.op = "switchtopo" ->
                    run_ops(execute_check(s, e.ip, SubSeq(ops, 1, k - 1)), ops, k + 1)
               [] e.op = "switch2complex" ->
                    run_ops([s EXCEPT !.topo_hat[e.ip] = switch2complex(@)], ops, k + 1)
               [] e.op = "switch2real" ->
                    run_ops([s EXCEPT !.topo_hat[e.ip] = switch2real(@)], ops, k + 1)
               [] OTHER -> run_ops(s, ops, k + 1)

\* a faulty variant: the type is checked once the owned buffer is reset
solve_check_after_memset(s, type) ==
    FLUPS_CHECK(~(type = "ROT" /\ s.odiff = 0),
                run_ops(s, solve_ops(s, type), 1), <<Ev("memset", 0, "data")>>)

\* Solver::solve: the check on the type is the first statement
solve(s, type) ==
    FLUPS_CHECK(~(type = "ROT" /\ s.odiff = 0),
                run_ops(s, solve_ops(s, type), 1), <<>>)

\* a faulty variant: the communicator of the physical topology is freed
destructor_comm_phys(s) == s.topo_phys.comm

\* Solver::~Solver: the communicator freed when REORDER_RANKS is defined
destructor_comm(s) == s.topo_hat[s.ndim - 1].comm

\* Solver::~Solver up to the release of the staging buffers: _green and the
\* plans of the field
destructor_plans(s) ==
    emit([s EXCEPT !.log = <<>>, !.green = FALSE, !.plans = FALSE],
         (IF s.green THEN <<Ev("free", 0, "green")>> ELSE <<>>)
         \o Loop(3, LAMBDA ip : Ev("delete", ip, "plan_forward"))
         \o Loop(3, LAMBDA ip : Ev("delete", ip, "plan_backward"))
         \o (IF s.odiff # 0
             THEN Loop(3, LAMBDA ip : Ev("delete", ip, "plan_backward_diff"))
             ELSE <<>>))

\* Solver::~Solver, the end: _data
destructor_data(s) ==
    emit([s EXCEPT !.data = FALSE],
         IF s.data THEN <<Ev("free", 0, "data")>> ELSE <<>>)

\* a faulty variant: the topologies are deleted before the switchtopos
destructor_topologies_first(s) ==
    LET s1 == destructor_plans(s)
        s2 == _delete_switchtopos(_deallocate_switchTopo(_delete_topologies(s1)))
        s3 == destructor_data(s2)
    IN  [NoSolver EXCEPT !.state = "destroyed", !.graph_comm = s3.graph_comm,
                         !.log = s3.log]

\* Solver::~Solver: what is left after destruction (every pointer is
\* released; graph_comm remembers that setup() had created a communicator;
\* log holds what the destructor did)
destructor(s) ==
    LET s1 == destructor_plans(s)
        s2 == _delete_switchtopos(_deallocate_switchTopo(s1))
        s3 == destructor_data(_delete_topologies(s2))
    IN  [NoSolver EXCEPT !.state = "destroyed", !.graph_comm = s3.graph_comm,
                         !.log = s3.log]

\* ------------------------------------------------------------------------
\* the FFTW library and the communicators of the process
\* ------------------------------------------------------------------------
fftw_init_threads(f) == [f EXCEPT !.inits = @ + 1, !.ready = TRUE]

fftw_cleanup_threads(f) == [f EXCEPT !.cleanups = @ + 1, !.ready = FALSE]

MPI_Comm_create(c, id) == [c EXCEPT ![id].created = TRUE]

MPI_Comm_free(c, id) == [c EXCEPT ![id].frees = @ + 1]

\* ------------------------------------------------------------------------
\* the operations on the solvers of the process
\* ------------------------------------------------------------------------
Construct(id, bc, orderDiff) ==
    /\ solver[id].state = "none"
    /\ solver' = [solver EXCEPT ![id] = Solver(UserComm, bc, orderDiff)]
    /\ fftw' = fftw_init_threads(fftw)
    /\ UNCHANGED <<comms, REORDER_RANKS>>

Setup(id, changeTopoComm) ==
    /\ solver[id].state = "constructed"
    /\ solver' = [solver EXCEPT ![id] = setup(@, id, changeTopoComm, REORDER_RANKS)]
    /\ comms' = IF REORDER_RANKS THEN MPI_Comm_create(comms, id) ELSE comms
    /\ UNCHANGED <<fftw, REORDER_RANKS>>

Solve(id, type) ==
    /\ solver[id].state = "ready"
    /\ solver' = [solver EXCEPT ![id] = solve(@, type)]
    /\ UNCHANGED <<fftw, comms, REORDER_RANKS>>

Destroy(id) ==
    /\ solver[id].state \in {"constructed", "ready"}
    /\ solver' = [solver EXCEPT ![id] = destructor(@)]
    /\ comms' = IF REORDER_RANKS
                THEN MPI_Comm_free(comms, destructor_comm(solver[id]))
                ELSE comms
    /\ fftw' = fftw_cleanup_threads(fftw)
    /\ UNCHANGED REORDER_RANKS

\* the variables the other specifications use, at rest
IdleSort == plan = [id \in Dirs |-> [dimID |-> id, type |-> 0]] /\ sortpc = "sorted"

IdleTopo == topo = Topology(0, Vec3(1, 1, 1), Vec3(CommSize, 1, 1), FALSE, 8, UserComm, 0)

IdleSolver ==
    /\ fftw = [inits |-> 0, cleanups |-> 0, ready |-> FALSE]
    /\ comms = [c \in CommIds |-> [created |-> c = UserComm, frees |-> 0]]
    /\ solver = [id \in SolverIds |-> NoSolver]
    /\ REORDER_RANKS = FALSE

IdleSwitch == sw = <<>> /\ swpc = "none" /\ v = <<>> /\ xfer = <<>>

IdleMetis == metis = <<>>

IdleMem == mem = <<>>

IdleCol == col = <<>>

IdleNb == nb = <<>>

IdleA2a == a2a = <<>>

IdleAux == IdleMetis /\ IdleMem /\ IdleCol /\ IdleNb /\ IdleA2a

\* the variables of the parts above
mainvars == <<plan, sortpc, topo, fftw, comms, solver, REORDER_RANKS, sw, swpc, v, xfer>>

IdleMain == IdleSort /\ IdleTopo /\ IdleSolver /\ IdleSwitch

InitSolver ==
    /\ fftw = [inits |-> 0, cleanups |-> 0, ready |-> FALSE]
    /\ comms = [c \in CommIds |-> [created |-> c = UserComm, frees |-> 0]]
    /\ solver = [id \in SolverIds |-> NoSolver]
    /\ REORDER_RANKS \in BOOLEAN
    /\ IdleSort /\ IdleTopo /\ IdleSwitch /\ IdleAux

\* the process runs until one of its solvers aborts it
Running == \A id \in SolverIds : solver[id].state # "aborted"

NextSolver ==
    /\ Running
    /\ UNCHANGED <<plan, sortpc, topo, sw, swpc, v, xfer>>
    /\ UNCHANGED auxvars
    /\ \/ \E id \in SolverIds, bc \in SolverPlans, orderDiff \in 0 .. 1 :
              Construct(id, bc, orderDiff)
       \/ \E id \in SolverIds, changeTopoComm \in BOOLEAN : Setup(id, changeTopoComm)
       \/ \E id \in SolverIds, type \in {"STD", "ROT"} : Solve(id, type)
       \/ \E id \in SolverIds : Destroy(id)

SpecSolver == InitSolver /\ [][NextSolver]_vars

\* ------------------------------------------------------------------------
\* the ordering of the plans, applied to every array of three plans
\* ------------------------------------------------------------------------
SortPlans ==
    /\ sortpc = "unsorted"
    /\ plan' = _sort_plans(plan)
    /\ sortpc' = IF sort_check(_sort_plans(plan)) THEN "sorted" ELSE "failed"

InitSort ==
    /\ plan \in {[id \in Dirs |-> [dimID |-> id, type |-> ty[id]]] :
                    ty \in [Dirs -> PlanTypes]}
    /\ sortpc = "unsorted"
    /\ IdleTopo /\ IdleSolver /\ IdleSwitch /\ IdleAux

NextSort ==
    /\ UNCHANGED <<topo, fftw, comms, solver, REORDER_RANKS, sw, swpc, v, xfer>>
    /\ UNCHANGED auxvars
    /\ SortPlans

SpecSort == InitSort /\ [][NextSort]_vars

\* the same arrays of plans, ordered by FFTW_Solver::_sort_plans
FFTW_Solver_SortPlans ==
    /\ sortpc = "unsorted"
    /\ plan' = FFTW_Solver_sort_plans(plan)
    /\ sortpc' = "returned"

NextFFTW_Sort ==
    /\ UNCHANGED <<topo, fftw, comms, solver, REORDER_RANKS, sw, swpc, v, xfer>>
    /\ UNCHANGED auxvars
    /\ FFTW_Solver_SortPlans

SpecFFTW_Sort == InitSort /\ [][NextFFTW_Sort]_vars

\* ------------------------------------------------------------------------
\* one topology on one process: construction, then changes of communicator
\* ------------------------------------------------------------------------
ChangeComm(comm, newrank) ==
    /\ topo' = change_comm(topo, comm, newrank)

InitTopo ==
    /\ topo \in {Topology(axis, nglob, nproc, isComplex, alignment, UserComm, rank) :
                    axis \in Dirs, nglob \in Nglobs, nproc \in Nprocs,
                    isComplex \in BOOLEAN, alignment \in Alignments, rank \in Ranks}
    /\ IdleSort /\ IdleSolver /\ IdleSwitch /\ IdleAux

NextTopo ==
    /\ UNCHANGED <<plan, sortpc, fftw, comms, solver, REORDER_RANKS, sw, swpc, v, xfer>>
    /\ UNCHANGED auxvars
    /\ \E comm \in CommIds, newrank \in Ranks : ChangeComm(comm, newrank)

SpecTopo == InitTopo /\ [][NextTopo]_vars

\* ------------------------------------------------------------------------
\* one switch between two topologies: construction, then executions
\* ------------------------------------------------------------------------
\* the topologies of a switch: the first direction has any size and the
\* input starts at the index shift of the output
SwitchTopos ==
    {SwitchTopo([r \in Ranks |-> Topology(axi, Vec3(a, 2, 2), npi, cplx,
                                          FLUPS_ALIGNMENT, UserComm, r)],
                [r \in Ranks |-> Topology(axo, Vec3(b, 2, 2), npo, cplx,
                                          FLUPS_ALIGNMENT, UserComm, r)],
                Vec3(shift, 0, 0)) :
        axi \in Dirs, axo \in Dirs, npi \in Nprocs, npo \in Nprocs,
        cplx \in BOOLEAN, a \in 1 .. MaxExtent, b \in 1 .. MaxExtent,
        shift \in 0 .. MaxShift}

\* the buffer of a process holds the largest of the two topologies; every
\* double starts with a value of its own
InitialData(s) ==
    [r \in Ranks |->
        [idx \in 0 .. Max(memsize(s.topo_in[r]), memsize(s.topo_out[r])) - 1 |->
            1000 * r + idx + 1]]

\* the check of the number of self blocks at the end of the constructor
selfBlockCheck(s) == \A r \in Ranks : s.oselfBlockN[r] = s.selfBlockN[r]

Execute(sign) ==
    /\ swpc \in {"built", "executed"}
    /\ Len(xfer) < MaxExecutes
    /\ xfer' = Append(xfer, traffic(sw, sign))
    /\ IF sw.valid /\ matched(execute_roles(sw, sign))
       THEN /\ v' = execute(sw, v, sign)
            /\ swpc' = "executed"
       ELSE /\ v' = [r \in Ranks |-> [idx \in DOMAIN v[r] |-> Junk]]
            /\ swpc' = "undefined"
    /\ UNCHANGED sw

InitSwitch ==
    /\ sw \in SwitchTopos
    /\ swpc \in {"built"} \cup (IF selfBlockCheck(sw) THEN {} ELSE {"aborted"})
    /\ v = InitialData(sw)
    /\ xfer = <<>>
    /\ IdleSort /\ IdleTopo /\ IdleSolver /\ IdleAux

NextSwitch ==
    /\ UNCHANGED <<plan, sortpc, topo, fftw, comms, solver, REORDER_RANKS>>
    /\ UNCHANGED auxvars
    /\ \E sign \in {"FLUPS_FORWARD", "FLUPS_BACKWARD"} : Execute(sign)

SpecSwitch == InitSwitch /\ [][NextSwitch]_vars

\* ------------------------------------------------------------------------
\* Solver::_reorder_metis on rank 0: the attempts of partitioning the graph
\* of the comm_size = MetisSize ranks in n_nodes parts
\* ------------------------------------------------------------------------
max_iter == 10

MetisRanks == 0 .. MetisSize - 1

\* the number of ranks of each node (vec_nodesize): the nodes hold
\* consecutive ranks; (int)(tpwgts[ip] * comm_size) is the size of node ip
NodeSizes ==
    {ns \in UNION {[0 .. n - 1 -> 1 .. MetisSize] : n \in 1 .. MetisSize} :
        SumTo(ns, Cardinality(DOMAIN ns) - 1) = MetisSize}

n_nodes(m) == Cardinality(DOMAIN m.nodes)

\* what METIS_PartGraphRecursive may return in part[]
Partitions(m) == [MetisRanks -> 0 .. n_nodes(m) - 1]

\* the number of ranks that part[] puts in the partition ip
partSize(part, ip) == Cardinality({i \in MetisRanks : part[i] = ip})

\* one iteration of the loop of attempts, METIS having returned part: rids
\* is incremented from the value the iteration before left in it
metis_attempt(m, part) ==
    LET counted == [ip \in DOMAIN m.nodes |-> m.rids[ip] + partSize(part, ip)]
        succeed == \A ip \in DOMAIN m.nodes : counted[ip] = m.nodes[ip]
        offset == [ip \in DOMAIN m.nodes |->
                      IF ip = 0 THEN 0 ELSE SumTo(counted, ip - 1)]
        exact == IF \A ip \in DOMAIN m.nodes : partSize(part, ip) = m.nodes[ip]
                 THEN m.exact \cup {part} ELSE m.exact
    IN  IF succeed
        THEN [m EXCEPT !.rids = offset, !.exact = exact, !.pc = "done",
                       !.order = [i \in MetisRanks |->
                           offset[part[i]]
                               + Cardinality({j \in 0 .. i - 1 : part[j] = part[i]})]]
        ELSE [m EXCEPT !.rids = offset, !.exact = exact, !.iter = m.iter + 1]

\* after the loop: no attempt succeeded
metis_fallback(m) ==
    [m EXCEPT !.order = [i \in MetisRanks |-> i], !.pc = "done"]

MetisAttempt(part) ==
    /\ metis.pc = "loop"
    /\ metis.iter < metis.max_iter
    /\ metis' = metis_attempt(metis, part)

MetisFallback ==
    /\ metis.pc = "loop"
    /\ metis.iter >= metis.max_iter
    /\ metis' = metis_fallback(metis)

\* the state before the loop; exact records the partitions returned so far
\* that have exactly the requested sizes
InitMetis ==
    /\ \E ns \in NodeSizes :
           metis = [nodes |-> ns,
                    max_iter |-> IF Cardinality(DOMAIN ns) = 1 THEN 0 ELSE max_iter,
                    iter |-> 0,
                    rids |-> [ip \in DOMAIN ns |-> 0],
                    order |-> [i \in MetisRanks |-> Junk],
                    exact |-> {},
                    pc |-> "loop"]
    /\ IdleMain /\ IdleMem /\ IdleCol /\ IdleNb /\ IdleA2a

NextMetis ==
    /\ UNCHANGED <<mainvars, mem, col, nb, a2a>>
    /\ \/ \E part \in Partitions(metis) : MetisAttempt(part)
       \/ MetisFallback

SpecMetis == InitMetis /\ [][NextMetis]_vars

\* ------------------------------------------------------------------------
\* Solver::solve on one rank: the buffers given by the user and the owned
\* buffer. Two processes are run side by side: in the first solve() gets one
\* buffer as field and as rhs, in the second two buffers, the rhs of which
\* holds the same values.
\* ------------------------------------------------------------------------
\* the modulus of the values kept in the buffers
Modulus == 5

\* the physical topologies of rank 0 (real, split in the last direction)
PhysTopos ==
    {Topology(0, Vec3(a, b, 2), Vec3(1, 1, CommSize), FALSE, FLUPS_ALIGNMENT, UserComm, 0) :
        a \in 1 .. 2, b \in 1 .. 2}

\* a buffer of the size of the topology
Buffers(t) == [0 .. memsize(t) - 1 -> 0 .. MaxValue]

\* collapsedIndex(ax0, 0, io, nmem, 1): the first entry of the row io
collapsedIndex(ax0, i0, io, nmem, nf) == i0 * nf + io * nmem[ax0] * nf

\* the entries visited by the loops of do_copy (lda = 1)
copy_ids(t) ==
    LET ax0 == t.axis
        ax1 == (ax0 + 1) % 3
        ax2 == (ax0 + 2) % 3
    IN  {collapsedIndex(ax0, 0, io, t.nmem, 1) + ii :
            io \in 0 .. t.nloc[ax1] * t.nloc[ax2] - 1, ii \in 0 .. t.nloc[ax0] - 1}

\* Solver::do_copy: from the argument to _data (FORWARD) or back (BACKWARD)
do_copy(t, m, arg, sign) ==
    IF sign = "FLUPS_FORWARD"
    THEN [m EXCEPT !["own"] =
            [k \in DOMAIN @ |-> IF k \in copy_ids(t) THEN m[arg][k] ELSE @[k]]]
    ELSE [m EXCEPT ![arg] =
            [k \in DOMAIN @ |-> IF k \in copy_ids(t) THEN m["own"][k] ELSE @[k]]]

\* std::memset(mydata, 0, ...)
memset_data(m) == [m EXCEPT !["own"] = [k \in DOMAIN @ |-> 0]]

\* do_FFT(FORWARD), do_mult, do_FFT(BACKWARD) on _data: the product with the
\* Green function in spectral space is a circular convolution of the whole
\* buffer, entry k of the result depends on every entry of _data
conv(own, k) ==
    LET n == Cardinality(DOMAIN own)
    IN  SumTo([j \in 0 .. n - 1 |-> ((((k - j) + n) % n) + 1) * own[j]], n - 1) % Modulus

do_FFT_mult(m) == [m EXCEPT !["own"] = [k \in DOMAIN @ |-> conv(m["own"], k)]]

\* a faulty variant: field is cleared together with the owned buffer
solve_buffers_clear_field(t, m, field, rhs) ==
    LET m0 == [memset_data(m) EXCEPT ![field] = [k \in DOMAIN @ |-> 0]]
    IN  do_copy(t, do_FFT_mult(do_copy(t, m0, rhs, "FLUPS_FORWARD")),
                field, "FLUPS_BACKWARD")

\* Solver::solve on the buffers field and rhs
solve_buffers(t, m, field, rhs) ==
    do_copy(t, do_FFT_mult(do_copy(t, memset_data(m), rhs, "FLUPS_FORWARD")),
            field, "FLUPS_BACKWARD")

\* solve(rhs, rhs) in the first process, and in the second solve(field, rhs)
\* with the buffer that holds the values of the first one as rhs
SolveBuffers ==
    /\ mem.n < MaxSolves
    /\ mem' = [mem EXCEPT
                 !.n = @ + 1,
                 !.before = mem.one["u"],
                 !.one = solve_buffers(mem.topo, @, "u", "u"),
                 !.two = solve_buffers(mem.topo, @, mem.other, mem.rhs),
                 !.rhs = mem.other,
                 !.other = mem.rhs]

InitMem ==
    /\ \E t \in PhysTopos : \E r \in Buffers(t), f \in Buffers(t) :
           mem = [topo |-> t, n |-> 0, before |-> r,
                  one |-> [b \in {"own", "u"} |-> r],
                  two |-> [b \in {"own", "f", "r"} |-> IF b = "f" THEN f ELSE r],
                  rhs |-> "r", other |-> "f"]
    /\ IdleMain /\ IdleMetis /\ IdleCol /\ IdleNb /\ IdleA2a

NextMem ==
    /\ UNCHANGED <<mainvars, metis, col, nb, a2a>>
    /\ SolveBuffers

SpecMem == InitMem /\ [][NextMem]_vars

\* ------------------------------------------------------------------------
\* Solver::do_mult: the doubles of _data the multiplication by the Green
\* function reads and writes, for a solver of lda components
\* ------------------------------------------------------------------------
\* Topology::memsize: lda components of memdim doubles each
topo_memsize(t, lda) == lda * memsize(t)

\* Solver::_allocate_data: the number of doubles of _data
allocate_data_size(s) ==
    Max(1, Max(topo_memsize(s.topo_hat, s.lda), topo_memsize(s.topo_phys, s.lda)))

\* the doubles of the pencils of the component lia: for each pencil io the
\* entries ii (real) or ii*2 and ii*2+1 (complex)
pencil_ids(t, lia) ==
    LET ax0 == t.axis
        ax1 == (ax0 + 1) % 3
        ax2 == (ax0 + 2) % 3
    IN  {lia * memsize(t) + collapsedIndex(ax0, 0, io, t.nmem, t.nf) + ii * t.nf + c :
            io \in 0 .. t.nloc[ax1] * t.nloc[ax2] - 1,
            ii \in 0 .. t.nloc[ax0] - 1, c \in 0 .. t.nf - 1}

\* dothemagic_std_real and dothemagic_std_complex: lia = 0 .. lda-1
dothemagic_std(s) ==
    UNION {pencil_ids(s.topo_hat, lia) : lia \in 0 .. s.lda - 1}

\* dothemagic_rot_*: dataloc0, dataloc1 and dataloc2
dothemagic_rot(s) ==
    UNION {pencil_ids(s.topo_hat, lia) : lia \in 0 .. 2}

\* Solver::do_mult
do_mult(s, type) ==
    IF type = "STD" THEN dothemagic_std(s)
    ELSE IF s.odiff \in {1, 2} THEN dothemagic_rot(s) ELSE {}

\* Solver::solve, as far as do_mult is concerned: the check on the type,
\* then the multiplication
rot_solve(s, type) ==
    IF type = "ROT" /\ s.odiff = 0
    THEN [s EXCEPT !.pc = "aborted", !.type = type]
    ELSE [s EXCEPT !.pc = "solved", !.type = type, !.touched = do_mult(s, type)]

\* the solvers: the last topology of the field on the rank 0, real or
\* complex, and the physical topology, both pencils along their axis
RotSolvers ==
    UNION {
      {[lda |-> lda, odiff |-> odiff,
        topo_hat |-> Topology(axis, Vec3(a, b, 2), np, cplx, FLUPS_ALIGNMENT, UserComm, 0),
        topo_phys |-> Topology(0, Vec3(a, b, 2), npp, FALSE, FLUPS_ALIGNMENT, UserComm, 0),
        pc |-> "ready", type |-> "none", touched |-> {}] :
          lda \in 1 .. MaxLda, odiff \in 0 .. 2,
          a \in 1 .. 2, b \in 1 .. 2, cplx \in BOOLEAN,
          np \in {n \in Nprocs : n[axis] = 1}, npp \in {n \in Nprocs : n[0] = 1}} :
      axis \in Dirs}

RotSolve(type) ==
    /\ mem.pc = "ready"
    /\ mem' = rot_solve(mem, type)

InitRot ==
    /\ mem \in RotSolvers
    /\ IdleMain /\ IdleMetis /\ IdleCol /\ IdleNb /\ IdleA2a

NextRot ==
    /\ UNCHANGED <<mainvars, metis, col, nb, a2a>>
    /\ \E type \in {"STD", "ROT"} : RotSolve(type)

SpecRot == InitRot /\ [][NextRot]_vars

\* ------------------------------------------------------------------------
\* SwitchTopo_a2a::SwitchTopo_a2a: the search of the colour of every rank
\* of MPI_COMM_WORLD before MPI_Comm_split
\* ------------------------------------------------------------------------
ColRanks == 0 .. ColSize - 1

SetMin(S) == CHOOSE x \in S : \A y \in S : x <= y

\* the destination ranks of the blocks: i2o[r] holds the ranks the input
\* blocks of r go to, o2i[r] the ranks its output blocks come from
Patterns ==
    {[i2o |-> i, o2i |-> [q \in ColRanks |-> {r \in ColRanks : q \in i[r]}]] :
        i \in [ColRanks -> SUBSET ColRanks]}

\* the first pass: mycolor, inMyGroup and the local nleft
first_pass(pat, r) ==
    LET group == pat.i2o[r] \cup pat.o2i[r]
    IN  [mycolor |-> SetMin({r} \cup group), inMyGroup |-> group,
         nleft |-> Cardinality(group)]

\* the loop over ir in one iteration of the while loop
RECURSIVE scan_colors(_, _, _, _, _)
scan_colors(ir, mycolor, n_notInMyGroup, inMyGroup, colors) ==
    IF ir = ColSize THEN [mycolor |-> mycolor, n |-> n_notInMyGroup]
    ELSE IF ir \in inMyGroup /\ colors[ir] # mycolor
         THEN scan_colors(ir + 1, Min(mycolor, colors[ir]),
                          (n_notInMyGroup + 1) - (IF colors[ir] < mycolor THEN 1 ELSE 0),
                          inMyGroup, colors)
         ELSE scan_colors(ir + 1, mycolor, n_notInMyGroup, inMyGroup, colors)

\* while (nleft > 0): rank r tests its own nleft
While(r) ==
    /\ col.pc[r] = "while"
    /\ col' = IF col.nleft[r] > 0
              THEN [col EXCEPT !.pc[r] = "gather", !.iter[r] = @ + 1]
              ELSE [col EXCEPT !.pc[r] = "split"]

\* the body of the loop, once every rank of MPI_COMM_WORLD has called
\* MPI_Allgather: the colours are gathered, every rank scans its group, and
\* MPI_Allreduce gives every rank the same nleft
Iteration ==
    /\ \A r \in ColRanks : col.pc[r] = "gather"
    /\ LET colors == col.mycolor
           res == [r \in ColRanks |->
                     scan_colors(0, col.mycolor[r], 0, col.inMyGroup[r], colors)]
           sum == SumTo([r \in ColRanks |-> res[r].n], ColSize - 1)
       IN  col' = [col EXCEPT !.mycolor = [r \in ColRanks |-> res[r].mycolor],
                              !.nleft = [r \in ColRanks |-> sum],
                              !.pc = [r \in ColRanks |-> "while"]]

\* MPI_Comm_split, once every rank has called it
Split ==
    /\ \A r \in ColRanks : col.pc[r] = "split"
    /\ col' = [col EXCEPT !.pc = [r \in ColRanks |-> "done"]]

\* some ranks wait in MPI_Allgather and the others in MPI_Comm_split: the
\* collective calls on MPI_COMM_WORLD do not match and no rank goes on
Mismatch ==
    /\ \A r \in ColRanks : col.pc[r] \in {"gather", "split"}
    /\ \E r \in ColRanks : col.pc[r] = "gather"
    /\ \E r \in ColRanks : col.pc[r] = "split"
    /\ col' = [col EXCEPT !.pc = [r \in ColRanks |->
                                    IF @[r] = "gather" THEN "in Allgather"
                                                       ELSE "in Comm_split"]]

InitCol ==
    /\ \E pat \in Patterns :
           col = [pattern |-> pat,
                  mycolor |-> [r \in ColRanks |-> first_pass(pat, r).mycolor],
                  inMyGroup |-> [r \in ColRanks |-> first_pass(pat, r).inMyGroup],
                  nleft |-> [r \in ColRanks |-> first_pass(pat, r).nleft],
                  iter |-> [r \in ColRanks |-> 0],
                  pc |-> [r \in ColRanks |-> "while"]]
    /\ IdleMain /\ IdleMetis /\ IdleMem /\ IdleNb /\ IdleA2a

NextCol ==
    /\ UNCHANGED <<mainvars, metis, mem, nb, a2a>>
    /\ \/ \E r \in ColRanks : While(r)
       \/ Iteration
       \/ Split
       \/ Mismatch

\* every rank goes on when it can, and a collective call completes once
\* every rank has entered it
SpecCol == InitCol /\ [][NextCol]_vars /\ WF_vars(NextCol)

\* ------------------------------------------------------------------------
\* SwitchTopo_nb::execute, step by step on every rank, with the persistent
\* requests of setup_buffers and the messages between the ranks
\* ------------------------------------------------------------------------
\* the transposes that execute() is called on: the constructor has computed
\* its blocks and passed its check of the self blocks; pencils along the
\* axis of each topology, real without shift (of even and of odd extent)
\* or complex with a shift
NbSwitches ==
    {s \in SwitchTopos :
        /\ s.valid /\ selfBlockCheck(s)
        /\ s.topo_in[0].nproc[s.topo_in[0].axis] = 1
        /\ s.topo_out[0].nproc[s.topo_out[0].axis] = 1
        /\ \/ /\ s.topo_in[0].axis = 0 /\ s.topo_in[0].nglob[0] = 2
              /\ s.topo_out[0].nglob[0] = 2 /\ s.shift[0] = 0 /\ s.topo_in[0].nf = 1
           \/ /\ s.topo_in[0].axis = 0 /\ s.topo_in[0].nglob[0] = 2
              /\ s.topo_out[0].nglob[0] = 3 /\ s.shift[0] = 1 /\ s.topo_in[0].nf = 2
              /\ s.topo_out[0].axis = 1
           \/ /\ s.topo_in[0].axis = 1 /\ s.topo_in[0].nglob[0] = 3
              /\ s.topo_out[0].nglob[0] = 3 /\ s.shift[0] = 0 /\ s.topo_in[0].nf = 1
              /\ s.topo_in[0].nproc[0] = 2 /\ s.topo_out[0].axis = 0}

\* the calls made by every rank: the same transpose forward then backward,
\* or a transpose forward and then another one (with its own communicator
\* and requests) built on the same blocks
NbCalls ==
    {<<[comm |-> 0, sign |-> "FLUPS_FORWARD"], [comm |-> 0, sign |-> "FLUPS_BACKWARD"]>>,
     <<[comm |-> 0, sign |-> "FLUPS_FORWARD"], [comm |-> 1, sign |-> "FLUPS_BACKWARD"]>>}

RECURSIVE SortedSeq(_)
SortedSeq(S) ==
    IF S = {} THEN <<>> ELSE LET x == SetMin(S) IN <<x>> \o SortedSeq(S \ {x})

\* _iselfBlockID / _oselfBlockID as filled by setup_buffers
selfBlockID(blocks, r) ==
    SortedSeq({bid \in DOMAIN blocks[r] : blocks[r][bid].destRank = r})

\* the buffers sendBuf and recvBuf of execute(): _sendBuf and _recvBuf in
\* FLUPS_FORWARD, exchanged in FLUPS_BACKWARD
sendBufOf(sign) == IF sign = "FLUPS_FORWARD" THEN "sendBuf" ELSE "recvBuf"

recvBufOf(sign) == IF sign = "FLUPS_FORWARD" THEN "recvBuf" ELSE "sendBuf"

\* a faulty variant: no receive request is started
start_recvs_none(x, r) == [bid \in DOMAIN x.recvBlocks[r] |-> "null"]

\* the requests started by the first loop of execute(): every receive
\* request that is not MPI_REQUEST_NULL
start_recvs(x, r) ==
    [bid \in DOMAIN x.recvBlocks[r] |->
        IF x.recvBlocks[r][bid].destRank = r THEN "null" ELSE "active"]

\* the events of the first loop
start_recvs_log(x, r) ==
    LET ids == SortedSeq({bid \in DOMAIN x.recvBlocks[r] : x.recvBlocks[r][bid].destRank # r})
    IN  [k \in 1 .. Len(ids) |-> Ev("start_recv", ids[k], "recvRequest")]

\* the message of MPI_Start(&sendRequest[bid]): snap is what the buffer
\* holds when the request is started
message(r, call, blk, bid, seq, snap) ==
    [src |-> r, dst |-> blk.destRank, tag |-> blk.destTag, comm |-> call.comm,
     bid |-> bid, seq |-> seq, snap |-> snap, eager |-> FALSE]

\* a faulty variant: the request of the block is started, then the block
\* is filled
pack_block_start_first(s, x, call, r, vr, old, bid, seq) ==
    LET blk == x.sendBlocks[r][bid]
        data == pack(vr, x.topo_in[r], x.istart[r], s.nByBlock, x.send_nBlock[r],
                     bid, blk.size)
    IN  IF blk.destRank = r
        THEN [self |-> TRUE, slot |-> blk.destTag, data |-> data, msgs |-> {},
              log |-> <<Ev("pack", bid, "recvBuf")>>]
        ELSE [self |-> FALSE, slot |-> bid, data |-> data,
              msgs |-> {message(r, call, blk, bid, seq, old)},
              log |-> <<Ev("start_send", bid, "sendRequest"), Ev("pack", bid, "sendBuf")>>]

\* one iteration of the second loop of execute(): the block bid is filled
\* from the memory vr, in the receive buffer for a self block and in the
\* send buffer (that held old) otherwise, and then its request is started
pack_block(s, x, call, r, vr, old, bid, seq) ==
    LET blk == x.sendBlocks[r][bid]
        data == pack(vr, x.topo_in[r], x.istart[r], s.nByBlock, x.send_nBlock[r],
                     bid, blk.size)
    IN  IF blk.destRank = r
        THEN [self |-> TRUE, slot |-> blk.destTag, data |-> data, msgs |-> {},
              log |-> <<Ev("pack", bid, "recvBuf")>>]
        ELSE [self |-> FALSE, slot |-> bid, data |-> data,
              msgs |-> {message(r, call, blk, bid, seq, data)},
              log |-> <<Ev("pack", bid, "sendBuf"), Ev("start_send", bid, "sendRequest")>>]

\* a faulty variant: the memory is not reset
memset_skipped(vr, t) == vr

\* std::memset(v, 0, sizeof(double) * topo_out->memsize())
memset_v(vr, t) == [idx \in DOMAIN vr |-> IF idx < memsize(t) THEN 0 ELSE vr[idx]]

\* a faulty variant: the blocks are taken in the order of the loop
unpack_bid_count(count, tag) == count

\* the block unpacked after MPI_Waitany: bid = status.MPI_TAG
unpack_bid(count, tag) == tag

\* the copy of the block bid from the receive buffer into the memory
unpack_block(s, x, r, vr, data, bid) ==
    LET written == unpack(data, x.topo_in[r].axis, x.topo_out[r], x.ostart[r],
                          s.nByBlock, x.recv_nBlock[r], bid, x.recvBlocks[r][bid].size)
    IN  [idx \in DOMAIN vr |->
            IF \E w \in written : w.idx = idx
            THEN (CHOOSE w \in written : w.idx = idx).val ELSE vr[idx]]

NbCall(r) == nb.calls[nb.pc[r].ci]

NbRoles(r) == execute_roles(nb.s, NbCall(r).sign)

\* execute() up to the loop on the received blocks: the receive requests are
\* started, the blocks are filled and sent, the memory is reset
Begin(r) ==
    /\ nb.pc[r].ph = "begin"
    /\ LET call == NbCall(r)
           x == NbRoles(r)
           sb == sendBufOf(call.sign)
           rb == recvBufOf(call.sign)
           n == nBlocks(x.send_nBlock[r])
           blocks == [bid \in 0 .. n - 1 |->
                        pack_block(nb.s, x, call, r, nb.v[r], nb.buf[r][sb][bid], bid,
                                   nb.seq[r] + bid)]
           send == [bid \in DOMAIN nb.buf[r][sb] |->
                      IF blocks[bid].self THEN nb.buf[r][sb][bid] ELSE blocks[bid].data]
           recv == [obid \in DOMAIN nb.buf[r][rb] |->
                      IF \E bid \in 0 .. n - 1 : blocks[bid].self /\ blocks[bid].slot = obid
                      THEN blocks[CHOOSE bid \in 0 .. n - 1 :
                                     blocks[bid].self /\ blocks[bid].slot = obid].data
                      ELSE nb.buf[r][rb][obid]]
       IN  nb' = [nb EXCEPT
                    !.pc[r].ph = IF nBlocks(x.recv_nBlock[r]) = 0 THEN "waitall" ELSE "unpack",
                    !.pc[r].count = 0,
                    !.rreq[r] = start_recvs(x, r),
                    !.sreq[r] = [bid \in 0 .. n - 1 |->
                                   IF blocks[bid].self THEN "null" ELSE "active"],
                    !.buf[r] = [@ EXCEPT ![sb] = send, ![rb] = recv],
                    !.msgs = @ \cup UNION {blocks[bid].msgs : bid \in 0 .. n - 1},
                    !.seq[r] = @ + n,
                    !.v[r] = memset_v(nb.v[r], x.topo_out[r]),
                    !.log[r] = start_recvs_log(x, r)
                               \o Flatten([k \in 1 .. n |-> blocks[k - 1].log])
                               \o <<Ev("memset", 0, "v")>>]

\* the library copies the buffer of a started send: the send request is
\* complete although the message has not been received
Eager(m) ==
    /\ m \in nb.msgs /\ ~m.eager
    /\ nb' = [nb EXCEPT !.msgs = (@ \ {m}) \cup {[m EXCEPT !.eager = TRUE]},
                        !.sreq[m.src][m.bid] = "complete"]

\* a message is received: the destination has an active receive request
\* with the source, the tag and the communicator of the message, and no
\* message sent before by the same rank matches that request
Deliver(m) ==
    /\ m \in nb.msgs
    /\ nb.pc[m.dst].ph \in {"unpack", "waitall"}
    /\ NbCall(m.dst).comm = m.comm
    /\ m.tag \in DOMAIN nb.rreq[m.dst]
    /\ nb.rreq[m.dst][m.tag] = "active"
    /\ NbRoles(m.dst).recvBlocks[m.dst][m.tag].destRank = m.src
    /\ ~\E m2 \in nb.msgs : /\ m2.src = m.src /\ m2.dst = m.dst /\ m2.comm = m.comm
                            /\ m2.tag = m.tag /\ m2.seq < m.seq
    /\ LET rb == recvBufOf(NbCall(m.dst).sign)
           data == IF m.eager THEN m.snap
                   ELSE nb.buf[m.src][sendBufOf(NbCall(m.src).sign)][m.bid]
       IN  nb' = [nb EXCEPT
                    !.msgs = @ \ {m},
                    !.buf[m.dst][rb][m.tag] = data,
                    !.rreq[m.dst][m.tag] = "complete",
                    !.sreq[m.src] = IF m.eager THEN @ ELSE [@ EXCEPT ![m.bid] = "complete"]]

\* one iteration of the loop on the received blocks: a self block, or the
\* block of a receive request completed (MPI_Waitany)
Unpack(r) ==
    /\ nb.pc[r].ph = "unpack"
    /\ LET call == NbCall(r)
           x == NbRoles(r)
           rb == recvBufOf(call.sign)
           count == nb.pc[r].count
           oself == selfBlockID(x.recvBlocks, r)
           last == count + 1 = nBlocks(x.recv_nBlock[r])
       IN  IF count < nb.s.selfBlockN[r]
           THEN LET bid == oself[count + 1]
                IN  nb' = [nb EXCEPT
                             !.v[r] = unpack_block(nb.s, x, r, @, nb.buf[r][rb][bid], bid),
                             !.pc[r].count = count + 1,
                             !.pc[r].ph = IF last THEN "waitall" ELSE "unpack",
                             !.log[r] = @ \o <<Ev("unpack", bid, "self")>>]
           ELSE \E tag \in DOMAIN nb.rreq[r] :
                    /\ nb.rreq[r][tag] = "complete"
                    /\ LET bid == unpack_bid(count, tag)
                       IN  nb' = [nb EXCEPT
                                    !.rreq[r][tag] = "inactive",
                                    !.v[r] = unpack_block(nb.s, x, r, @, nb.buf[r][rb][bid], bid),
                                    !.pc[r].count = count + 1,
                                    !.pc[r].ph = IF last THEN "waitall" ELSE "unpack",
                                    !.log[r] = @ \o <<Ev("unpack", bid, "MPI_Waitany")>>]

\* MPI_Waitall on the send requests, and the return of execute()
Waitall(r) ==
    /\ nb.pc[r].ph = "waitall"
    /\ \A bid \in DOMAIN nb.sreq[r] : nb.sreq[r][bid] \in {"null", "complete"}
    /\ nb' = [nb EXCEPT
                !.sreq[r] = [bid \in DOMAIN @ |-> IF @[bid] = "null" THEN "null" ELSE "inactive"],
                !.ret[r] = Append(@, [v |-> nb.v[r], log |-> nb.log[r], rreq |-> nb.rreq[r]]),
                !.pc[r].ci = @ + 1,
                !.pc[r].ph = IF nb.pc[r].ci = Len(nb.calls) THEN "done" ELSE "begin"]

InitNb ==
    /\ \E s \in NbSwitches, calls \in NbCalls :
           nb = [s |-> s, calls |-> calls,
                 v |-> InitialData(s),
                 buf |-> [r \in Ranks |->
                            [sendBuf |-> [bid \in BlockIds(s.inBlock[r]) |-> <<>>],
                             recvBuf |-> [bid \in BlockIds(s.onBlock[r]) |-> <<>>]]],
                 msgs |-> {}, seq |-> [r \in Ranks |-> 0],
                 rreq |-> [r \in Ranks |-> <<>>], sreq |-> [r \in Ranks |-> <<>>],
                 log |-> [r \in Ranks |-> <<>>], ret |-> [r \in Ranks |-> <<>>],
                 pc |-> [r \in Ranks |-> [ci |-> 1, ph |-> "begin", count |-> 0]]]
    /\ IdleMain /\ IdleMetis /\ IdleMem /\ IdleCol /\ IdleA2a

NextNb ==
    /\ UNCHANGED <<mainvars, metis, mem, col, a2a>>
    /\ \/ \E r \in Ranks : Begin(r)
       \/ \E m \in nb.msgs : Eager(m)
       \/ \E m \in nb.msgs : Deliver(m)
       \/ \E r \in Ranks : Unpack(r)
       \/ \E r \in Ranks : Waitall(r)

\* every rank goes on when it can and the library receives the messages
\* that match an active request
SpecNb == InitNb /\ [][NextNb]_vars /\ WF_vars(NextNb)

\* ------------------------------------------------------------------------
\* SwitchTopo_a2a: the constructor, setup_buffers and execute on every rank
\* ------------------------------------------------------------------------
\* the switches built: topologies of axis 0 and 1 with the same origin
A2aSwitches ==
    {SwitchTopo([r \in Ranks |-> Topology(0, Vec3(a, 2, 2), npi, cplx,
                                          FLUPS_ALIGNMENT, UserComm, r)],
                [r \in Ranks |-> Topology(1, Vec3(b, 2, 2), npo, cplx,
                                          FLUPS_ALIGNMENT, UserComm, r)],
                Vec3(0, 0, 0)) :
        npi \in Nprocs, npo \in Nprocs, cplx \in BOOLEAN,
        a \in 1 .. A2aExtent, b \in 1 .. A2aExtent}

\* the ranks of _subcomm: the ranks of MPI_COMM_WORLD that have the colour
\* of r, which are the ranks linked to r by exchanges of blocks
RECURSIVE subcomm_ranks(_, _)
subcomm_ranks(s, S) ==
    LET T == S \cup UNION {{s.iBlocks[r][b].destRank : b \in DOMAIN s.iBlocks[r]}
                           \cup {s.oBlocks[r][b].destRank : b \in DOMAIN s.oBlocks[r]} :
                              r \in S}
    IN  IF T = S THEN S ELSE subcomm_ranks(s, T)

\* MPI_Comm_split with the key rank: the rank of q in its _subcomm
newRanks(s, q) == Cardinality({p \in subcomm_ranks(s, {q}) : p < q})

\* SwitchTopo_a2a::_setup_subComm: the count for each rank of _subcomm
setup_subComm_count(s, blocks, r) ==
    [ir \in 0 .. Cardinality(subcomm_ranks(s, {r})) - 1 |->
        s.blockMem * Cardinality({b \in DOMAIN blocks[r] :
                                     newRanks(s, blocks[r][b].destRank) = ir})]

\* SwitchTopo_a2a::_setup_subComm: the start indexes,
\* start[ir] = start[ir-1] + count[ir]
RECURSIVE setup_subComm_start(_, _)
setup_subComm_start(count, ir) ==
    IF ir = 0 THEN 0
    ELSE setup_subComm_start(count, ir - 1) + count[ir]

\* SwitchTopo_a2a::SwitchTopo_a2a: the test on the counts of the rank
is_all2all(i2o_count, o2i_count, subsize) ==
    /\ i2o_count[0] # 0
    /\ \A ir \in 1 .. subsize - 1 :
          i2o_count[0] = i2o_count[ir] /\ i2o_count[0] = o2i_count[ir]

\* SwitchTopo_a2a::setup_buffers: the offset of the block ib in the buffer,
\* the counts of the ranks below its destination
setup_buffers_offsets(s, blocks, count, r) ==
    [ib \in DOMAIN blocks[r] |->
        SumTo(count, newRanks(s, blocks[r][ib].destRank) - 1)]

\* SwitchTopo_a2a::SwitchTopo_a2a on the rank r: the counts and start
\* indexes of the two sides and the choice of the communication
a2a_constructor(s, r) ==
    LET subsize == Cardinality(subcomm_ranks(s, {r}))
        i2o_count == setup_subComm_count(s, s.iBlocks, r)
        o2i_count == setup_subComm_count(s, s.oBlocks, r)
    IN  [subsize |-> subsize,
         i2o_count |-> i2o_count, o2i_count |-> o2i_count,
         i2o_start |-> [ir \in 0 .. subsize - 1 |-> setup_subComm_start(i2o_count, ir)],
         o2i_start |-> [ir \in 0 .. subsize - 1 |-> setup_subComm_start(o2i_count, ir)],
         is_all2all |-> is_all2all(i2o_count, o2i_count, subsize),
         sendBuf |-> <<>>, recvBuf |-> <<>>]

\* SwitchTopo_a2a::setup_buffers on the rank r
a2a_setup_buffers(s, o, r) ==
    [o EXCEPT !.sendBuf = setup_buffers_offsets(s, s.iBlocks, o.i2o_count, r),
              !.recvBuf = setup_buffers_offsets(s, s.oBlocks, o.o2i_count, r)]

\* SwitchTopo_a2a::execute, the pointers taken according to the sign
a2a_roles(s, o, r, sign) ==
    IF sign = "FLUPS_FORWARD"
    THEN [sendBuf |-> o.sendBuf, blocks |-> s.iBlocks[r],
          send_count |-> o.i2o_count, recv_count |-> o.o2i_count,
          send_start |-> o.i2o_start, recv_start |-> o.o2i_start]
    ELSE [sendBuf |-> o.recvBuf, blocks |-> s.oBlocks[r],
          send_count |-> o.o2i_count, recv_count |-> o.i2o_count,
          send_start |-> o.o2i_start, recv_start |-> o.i2o_start]

\* SwitchTopo_a2a::execute, the filling of the buffers: the doubles of the
\* buffer written for each block
a2a_pack(s, o, r, sign) ==
    LET x == a2a_roles(s, o, r, sign)
    IN  [bid \in DOMAIN x.blocks |->
            {x.sendBuf[bid] + k :
                k \in 0 .. x.blocks[bid].size[0] * x.blocks[bid].size[1]
                             * x.blocks[bid].size[2] * s.topo_in[r].nf - 1}]

\* SwitchTopo_a2a::execute, the communication called
a2a_call(s, o, r, sign) ==
    LET x == a2a_roles(s, o, r, sign)
    IN  IF o.is_all2all
        THEN [op |-> "MPI_Alltoall", sign |-> sign,
              send_count |-> x.send_count[0], recv_count |-> x.recv_count[0],
              send_start |-> <<>>, recv_start |-> <<>>]
        ELSE [op |-> "MPI_Alltoallv", sign |-> sign,
              send_count |-> x.send_count, recv_count |-> x.recv_count,
              send_start |-> x.send_start, recv_start |-> x.recv_start]

\* the constructor has returned on every rank, unless the block size of a
\* direction is 0
InitA2a ==
    /\ \E s \in A2aSwitches :
          a2a = [s |-> s,
                 obj |-> [r \in Ranks |-> a2a_constructor(s, r)],
                 pc |-> [r \in Ranks |-> IF s.valid THEN "constructed" ELSE "failed"],
                 packed |-> [r \in Ranks |-> <<>>],
                 call |-> [r \in Ranks |-> <<>>],
                 n |-> [r \in Ranks |-> 0]]
    /\ IdleMain /\ IdleMetis /\ IdleMem /\ IdleCol /\ IdleNb

\* SwitchTopo_a2a::setup_buffers
SetupBuffers(r) ==
    /\ a2a.pc[r] = "constructed"
    /\ a2a' = [a2a EXCEPT !.obj[r] = a2a_setup_buffers(a2a.s, @, r),
                          !.pc[r] = "ready"]

\* SwitchTopo_a2a::execute up to the communication; the ranks execute the
\* switch in the same order of signs
A2aExecute(r, sign) ==
    /\ a2a.pc[r] = "ready"
    /\ a2a.n[r] < MaxExecutes
    /\ \A q \in Ranks : Len(a2a.call[q]) > Len(a2a.call[r]) =>
                           a2a.call[q][Len(a2a.call[r]) + 1] = sign
    /\ a2a' = [a2a EXCEPT !.packed[r] = a2a_pack(a2a.s, a2a.obj[r], r, sign),
                          !.call[r] = Append(@, sign),
                          !.pc[r] = a2a_call(a2a.s, a2a.obj[r], r, sign).op]

\* the ranks of _subcomm of r are in the same communication: it completes,
\* the memory is reset and the blocks are copied from the buffers
Exchange(r) ==
    /\ a2a.pc[r] \in {"MPI_Alltoall", "MPI_Alltoallv"}
    /\ \A q \in subcomm_ranks(a2a.s, {r}) : a2a.pc[q] = a2a.pc[r] /\ a2a.n[q] = a2a.n[r]
    /\ a2a' = [a2a EXCEPT
                 !.pc = [q \in Ranks |-> IF q \in subcomm_ranks(a2a.s, {r})
                                         THEN "ready" ELSE @[q]],
                 !.n = [q \in Ranks |-> IF q \in subcomm_ranks(a2a.s, {r})
                                        THEN @[q] + 1 ELSE @[q]]]

\* the ranks of _subcomm of r are in different communications of the same
\* execution: the calls do not match and none of them returns
A2aMismatch(r) ==
    /\ a2a.pc[r] \in {"MPI_Alltoall", "MPI_Alltoallv"}
    /\ \A q \in subcomm_ranks(a2a.s, {r}) :
          a2a.pc[q] \in {"MPI_Alltoall", "MPI_Alltoallv"} /\ a2a.n[q] = a2a.n[r]
    /\ \E q \in subcomm_ranks(a2a.s, {r}) : a2a.pc[q] # a2a.pc[r]
    /\ a2a' = [a2a EXCEPT
                 !.pc = [q \in Ranks |-> IF q \in subcomm_ranks(a2a.s, {r})
                                         THEN "in " \o @[q] ELSE @[q]]]

NextA2a ==
    /\ UNCHANGED <<mainvars, metis, mem, col, nb>>
    /\ \/ \E r \in Ranks : SetupBuffers(r)
       \/ \E r \in Ranks, sign \in {"FLUPS_FORWARD", "FLUPS_BACKWARD"} :
              A2aExecute(r, sign)
       \/ \E r \in Ranks : Exchange(r)
       \/ \E r \in Ranks : A2aMismatch(r)

SpecA2a == InitA2a /\ [][NextA2a]_vars

\* ========================================================================
\* Properties
\* ========================================================================

\* ---- the order of the operations of solve() ----
\* a log is the log of a solve() when it starts with the zeroing of the buffer
IsSolveLog(l) == Len(l) > 0 /\ l[1].op = "memset"

\* the operations of a log that move or change the data of the owned buffer
DataOps == {"memset", "do_copy", "switchtopo", "execute_plan", "do_mult"}

DataLog(l) == SelectSeq(l, LAMBDA e : e.op \in DataOps)

\* forward or backward, whatever the backward plans used
DirOf(e) == IF e.arg \in {"BACKWARD", "BACKWARD_DIFF"} THEN "B" ELSE "F"

\* the k-th operation (k = 1 .. 4n+4) of a solve over n directions
SolveStep(n, k) ==
    CASE k = 1 -> <<"memset", 0, "F">>
      [] k = 2 -> <<"do_copy", 0, "F">>
      [] k >= 3 /\ k <= 2 * n + 2 ->
            <<IF k % 2 = 1 THEN "switchtopo" ELSE "execute_plan", (k - 3) \div 2, "F">>
      [] k = 2 * n + 3 -> <<"do_mult", 0, "F">>
      [] k >= 2 * n + 4 /\ k <= 4 * n + 3 ->
            <<IF k % 2 = 0 THEN "execute_plan" ELSE "switchtopo",
              n - 1 - ((k - 2 * n - 4) \div 2), "B">>
      [] OTHER -> <<"do_copy", 0, "B">>

\* C5: solve() zeroes the owned buffer, copies the right-hand side in, then
\* for ip = 0 .. ndim-1 transposes forward and transforms, multiplies by the
\* Green function, then for ip = ndim-1 .. 0 transforms back and transposes
\* backward, and finally copies the result out.
C5_SolveOrder ==
    \A id \in SolverIds :
        IsSolveLog(solver[id].log) =>
            LET d == DataLog(solver[id].log)
                n == solver[id].ndim
            IN  /\ Len(d) = 4 * n + 4
                /\ \A k \in 1 .. Len(d) :
                       <<d[k].op, IF d[k].op \in {"switchtopo", "execute_plan"}
                                  THEN d[k].ip ELSE 0,
                         IF d[k].op = "do_mult" THEN "F" ELSE DirOf(d[k])>>
                           = SolveStep(n, k)

C5_Witness ==
    \E id \in SolverIds :
        /\ IsSolveLog(solver[id].log)
        /\ solver[id].ndim = 3
        /\ \E k \in 1 .. Len(solver[id].log) : solver[id].log[k].arg = "BACKWARD_DIFF"

\* ---- the ordering of the plans ----
\* C6: _sort_plans leaves a permutation of the three plans it was given, with
\* plan[0]->type() <= plan[1]->type() <= plan[2]->type(), and its final
\* check does not fail, whatever the three types.
C6_SortPlans ==
    [][SortPlans =>
        /\ {plan'[i] : i \in Dirs} = {plan[i] : i \in Dirs}
        /\ plan'[0].type <= plan'[1].type
        /\ plan'[1].type <= plan'[2].type
        /\ sortpc' = "sorted"]_vars

C6_Witness ==
    /\ sortpc = "sorted"
    /\ plan[0].dimID = 2 /\ plan[1].dimID = 1 /\ plan[2].dimID = 0
    /\ plan[0].type < plan[1].type /\ plan[1].type < plan[2].type

\* C28: when FFTW_Solver::_sort_plans has returned, the types of the three
\* plans are in ascending order, whatever the three types it was given.
C28_Ascending ==
    sortpc = "returned" =>
        plan[0].type <= plan[1].type /\ plan[1].type <= plan[2].type

\* ---- the padding of a topology ----
\* C7 (as claimed): in the fast direction nmem * nf * sizeof(double) is a
\* multiple of the alignment, the two other directions are not padded.
C7_Padded ==
    /\ (topo.nmem[topo.axis] * topo.nf * sizeofDouble) % topo.alignment = 0
    /\ \A id \in Dirs \ {topo.axis} : topo.nmem[id] = topo.nloc[id]

\* ---- what setup() leaves behind ----
\* a log is the log of a setup() when it is not empty and not that of a solve
IsSetupLog(l) == Len(l) > 0 /\ l[1].op # "memset"

\* between two allocations of the buffer there is a release of that buffer
ReleasedBeforeAllocated(l, buf) ==
    \A i, j \in 1 .. Len(l) :
        (i < j /\ l[i] = Ev("malloc", 0, buf) /\ l[j] = Ev("malloc", 0, buf))
            => \E k \in i + 1 .. j - 1 : l[k] = Ev("free", 0, buf)

\* the staging buffers are allocated twice: for Green, then for the field
AllocatedTwice(l, buf) ==
    Cardinality({i \in 1 .. Len(l) : l[i] = Ev("malloc", 0, buf)}) = 2

\* C8: when setup() has returned, every transpose, topology and plan of the
\* Green function is destroyed and the Green buffer is kept; the staging
\* buffers of the Green transposes were released before those of the field
\* transposes were allocated.
C8_GreenReleased ==
    \A id \in SolverIds :
        solver[id].state = "ready" =>
            /\ \A ip \in Dirs :
                   /\ solver[id].switchtopo_green[ip] = "NULL"
                   /\ ~solver[id].topo_green[ip].alive
                   /\ solver[id].plan_green[ip] = "NULL"
            /\ solver[id].green
            /\ solver[id].sendBuf /\ solver[id].recvBuf
            /\ IsSetupLog(solver[id].log) =>
                   /\ AllocatedTwice(solver[id].log, "sendBuf")
                   /\ AllocatedTwice(solver[id].log, "recvBuf")
                   /\ ReleasedBeforeAllocated(solver[id].log, "sendBuf")
                   /\ ReleasedBeforeAllocated(solver[id].log, "recvBuf")

C8_Witness ==
    \E id \in SolverIds :
        /\ solver[id].state = "ready"
        /\ IsSetupLog(solver[id].log)
        /\ solver[id].ndim = 3
        /\ solver[id].data

\* ---- the communicator created by setup() ----
HasEvent(l, e) == \E k \in 1 .. Len(l) : l[k] = e

TopoRefs(which, ip) ==
    IF which = "switchtopo"
    THEN {<<"topo_hat", ip>>} \cup (IF ip > 0 THEN {<<"topo_hat", ip - 1>>} ELSE {})
    ELSE {<<"topo_green", ip>>, <<"topo_green", ip - 1>>}

\* the event e sets up or executes the transpose ip of the array which
UsesTranspose(e, which, ip) ==
    \/ e.op \in {"setup", "setup_buffers"} /\ e.arg = which /\ e.ip = ip
    \/ e.op = "switchtopo" /\ which = "switchtopo" /\ e.ip = ip
    \/ e.op = "cmptGreenFunction" /\ which = "switchtopo_green"

TransposeIds == {"switchtopo", "switchtopo_green"} \X Dirs

\* C26: a transpose that exists refers to topologies that exist; in what
\* setup(), solve() and the destructor do, the deletion of a solver-owned
\* topology comes after the deletion of every transpose that refers to it,
\* and no such transpose is set up or executed after it.
C26_Lifetimes ==
    \A id \in SolverIds :
        LET s == solver[id]
            l == s.log
            alive(t) == IF t[1] = "topo_hat" THEN s.topo_hat[t[2]].alive
                                             ELSE s.topo_green[t[2]].alive
        IN  /\ \A ip \in Dirs :
                  /\ s.switchtopo[ip] # "NULL" =>
                         \A t \in TopoRefs("switchtopo", ip) : alive(t)
                  /\ s.switchtopo_green[ip] # "NULL" =>
                         \A t \in TopoRefs("switchtopo_green", ip) : alive(t)
            /\ \A k \in 1 .. Len(l) :
                  (l[k].op = "delete" /\ l[k].arg \in {"topo_hat", "topo_green"}) =>
                    \A tr \in TransposeIds :
                      <<l[k].arg, l[k].ip>> \in TopoRefs(tr[1], tr[2]) =>
                        /\ \E j \in 1 .. k - 1 : l[j] = Ev("delete", tr[2], tr[1])
                        /\ \A j \in k + 1 .. Len(l) :
                               ~UsesTranspose(l[j], tr[1], tr[2])

\* a solver that was set up, has solved, and is destroyed
C26_Witness ==
    \E id \in SolverIds :
        /\ solver[id].state = "destroyed"
        /\ HasEvent(solver[id].log, Ev("free", 0, "data"))
        /\ HasEvent(solver[id].log, Ev("delete", 0, "switchtopo"))
        /\ HasEvent(solver[id].log, Ev("delete", 0, "topo_hat"))

\* ---- the communicators the solver frees ----
\* C27: the only communicators freed are communicators created by a
\* setup(); the communicator of the caller is never freed.
C27_UserComm ==
    \A c \in CommIds :
        comms[c].frees > 0 => (c # UserComm /\ comms[c].created)

\* ---- the threading state of the FFT library ----
\* C10 (as claimed): whatever the constructions and destructions of solvers,
\* the threading state is initialised at most once and torn down at most
\* once in the process.
C10_InitOnce == fftw.inits <= 1 /\ fftw.cleanups <= 1

\* ---- the rotational solve of a solver without derivative ----
\* the operations of a log that write to the owned buffer, to field or to
\* rhs (do_copy writes the owned buffer forward and field backward)
Writes(l) == {k \in 1 .. Len(l) : l[k].op \in DataOps}

\* C12: solve(ROT) on a solver constructed with orderDiff = 0 aborts, and
\* nothing was written to the owned buffer, to field or to rhs before the
\* abort: a solver of order 0 never performs the rotational product, a
\* rotational solve of a ready solver of order 0 leaves it aborted, and the
\* operations of an aborted solve hold no write.
C12_RotAbort ==
    \A id \in SolverIds :
        /\ solver[id].odiff = 0 => ~HasEvent(solver[id].log, Ev("do_mult", 0, "ROT"))
        /\ solver[id].state = "aborted" =>
              /\ solver[id].odiff = 0
              /\ Writes(solver[id].log) = {}
              /\ solver[id].log = <<Ev("abort", 0, "FLUPS_CHECK")>>

\* C12: every rotational solve of a ready solver of order 0 aborts it
C12_RotFatal ==
    [][\A id \in SolverIds :
          (solver[id].state = "ready" /\ solver[id].odiff = 0
           /\ solver'[id].state = "ready" /\ solver'[id] # solver[id])
          => (IsSolveLog(solver'[id].log)
              /\ HasEvent(solver'[id].log, Ev("do_mult", 0, "STD")))]_vars

C12_Witness ==
    \E id \in SolverIds :
        solver[id].state = "aborted" /\ solver[id].odiff = 0 /\ solver[id].ndim = 3

\* ---- the real/complex flag of the intermediate topologies ----
\* the transposes executed by a log
Transposes(l) == {k \in 1 .. Len(l) : l[k].op = "switchtopo"}

\* C19: whatever the solves done before, a solve (standard or with the
\* derivative plans) finds the two topologies of every transpose it executes
\* with the same real/complex flag, so that no execution is refused and all
\* the transposes are executed, and it leaves every intermediate topology
\* with the flag it had before the solve, which is the flag it had when
\* setup returned.
C19_Flags ==
    [][\A id \in SolverIds :
          (solver[id].state = "ready" /\ solver'[id].state \in {"ready", "aborted"}
           /\ solver'[id] # solver[id])
          => /\ \A ip \in Dirs :
                   solver'[id].topo_hat[ip].nf = solver[id].topo_hat[ip].nf
             /\ solver'[id].topo_phys.nf = solver[id].topo_phys.nf
             /\ solver'[id].state = "aborted" => Transposes(solver'[id].log) = {}
             /\ solver'[id].state = "ready" =>
                   Cardinality(Transposes(solver'[id].log)) = 2 * solver[id].ndim]_vars

C19_Witness ==
    \E id \in SolverIds :
        /\ solver[id].state = "ready" /\ solver[id].ndim = 3
        /\ IsSolveLog(solver[id].log)
        /\ HasEvent(solver[id].log, Ev("do_mult", 0, "ROT"))
        /\ HasEvent(solver[id].log, Ev("switch2complex", 1, "topo_hat"))
        /\ HasEvent(solver[id].log, Ev("switch2real", 1, "topo_hat"))
        /\ solver[id].topo_hat[0].nf = 1
        /\ solver[id].topo_hat[1].nf = 1
        /\ solver[id].topo_hat[2].nf = 2

\* ---- solve() called with one buffer as field and as rhs ----
\* C13: after every solve the values written to field are the same in the
\* process that gave one buffer as field and rhs as in the process that gave
\* two buffers, and the buffer given as rhs only is left as it was.
C13_SameBuffer ==
    mem # <<>> /\ mem.n >= 1 =>
        /\ \A k \in copy_ids(mem.topo) : mem.one["u"][k] = mem.two[mem.rhs][k]
        /\ \A k \in copy_ids(mem.topo) : mem.two[mem.other][k] = mem.before[k]
        /\ mem.one["own"] = mem.two["own"]

C13_Witness ==
    /\ mem # <<>> /\ mem.n = MaxSolves
    /\ copy_ids(mem.topo) # DOMAIN mem.one["u"]
    /\ \E k \in copy_ids(mem.topo) : mem.one["u"][k] # mem.before[k]
    /\ \E k \in copy_ids(mem.topo) : mem.one["u"][k] # 0
    /\ \E k \in copy_ids(mem.topo) : mem.two["f"][k] # mem.two["r"][k]

\* ---- the colours of the ranks ----
\* the ranks reached from r by exchanges of blocks, in any direction
RECURSIVE Component(_, _)
Component(pat, S) ==
    LET T == S \cup UNION {pat.i2o[r] \cup pat.o2i[r] : r \in S}
    IN  IF T = S THEN S ELSE Component(pat, T)

ColDone == \A r \in ColRanks : col.pc[r] = "done"

\* any two ranks that exchange a block hold the smallest rank of their
\* component as colour
ColComponents ==
    \A r \in ColRanks : col.mycolor[r] = SetMin(Component(col.pattern, {r}))

\* C14: the search of the colours ends on every rank, whatever the
\* destinations of the blocks, and then every rank holds the smallest rank
\* of its component.
C14_Colours == <>(ColDone /\ ColComponents)

\* C18: every rank of the communicator runs the same number of iterations
\* of the loop: no rank is in an iteration that a rank which has left the
\* loop has not run.
C18_SameIterations ==
    col # <<>> =>
        \A r, q \in ColRanks :
            col.pc[r] \in {"split", "done", "in Comm_split"} => col.iter[q] <= col.iter[r]

\* ---- the non-blocking execution of a transpose, step by step ----
\* the memory of every rank before the call k and after it
RECURSIVE NbExpected(_)
NbExpected(k) ==
    IF k = 0 THEN InitialData(nb.s)
    ELSE execute(nb.s, NbExpected(k - 1), nb.calls[k].sign)

\* the positions of the events of a log that satisfy a test
Events(l, op) == {i \in 1 .. Len(l) : l[i].op = op}

EventsOf(l, op, bid) == {i \in 1 .. Len(l) : l[i].op = op /\ l[i].ip = bid}

\* the ranks that are between the filling of the buffers and the return
InCall(r) == nb.pc[r].ph \in {"unpack", "waitall"}

\* C15: in an execution on a rank, every receive request of a block that is
\* not a self block is started before any send request; the send request
\* of a block is started once, after the block is filled in its send slot
\* with the data of the block; a self block starts no request and is
\* filled in the receive slot given by its destination tag.
C15_Order ==
    nb # <<>> =>
      \A r \in Ranks : InCall(r) =>
        LET x == NbRoles(r)
            l == nb.log[r]
            in == NbExpected(nb.pc[r].ci - 1)[r]
            n == nBlocks(x.send_nBlock[r])
            data(bid) == pack(in, x.topo_in[r], x.istart[r], nb.s.nByBlock,
                              x.send_nBlock[r], bid, x.sendBlocks[r][bid].size)
        IN  /\ \A i \in Events(l, "start_recv"), j \in Events(l, "start_send") : i < j
            /\ {l[i].ip : i \in Events(l, "start_recv")}
                 = {bid \in DOMAIN x.recvBlocks[r] : x.recvBlocks[r][bid].destRank # r}
            /\ \A bid \in DOMAIN x.sendBlocks[r] :
                 LET blk == x.sendBlocks[r][bid]
                 IN  /\ Cardinality(EventsOf(l, "pack", bid)) = 1
                     /\ IF blk.destRank = r
                        THEN /\ EventsOf(l, "start_send", bid) = {}
                             /\ EventsOf(l, "start_recv", blk.destTag) = {}
                             /\ \A i \in EventsOf(l, "pack", bid) : l[i].arg = "recvBuf"
                             /\ nb.buf[r][recvBufOf(NbCall(r).sign)][blk.destTag] = data(bid)
                        ELSE /\ Cardinality(EventsOf(l, "start_send", bid)) = 1
                             /\ \A i \in EventsOf(l, "pack", bid),
                                   j \in EventsOf(l, "start_send", bid) :
                                    i < j /\ l[i].arg = "sendBuf"
            /\ \A m \in nb.msgs :
                 (m.src = r /\ m.seq >= nb.seq[r] - n) => m.snap = data(m.bid)

C15_Witness ==
    /\ nb # <<>>
    /\ \E r \in Ranks :
         /\ InCall(r) /\ nb.pc[r].ci = 2
         /\ \E bid \in DOMAIN NbRoles(r).sendBlocks[r] : NbRoles(r).sendBlocks[r][bid].destRank = r
         /\ Cardinality(Events(nb.log[r], "start_send")) >= 2
         /\ Events(nb.log[r], "start_recv") # {}

\* C16: when an execution returns on a rank, every receive block has been
\* copied once into the memory, the self blocks first and the others once
\* their receive request has completed; no request of the rank is pending;
\* the memory holds the whole transposed data.
C16_Complete ==
    nb # <<>> =>
      \A r \in Ranks :
        /\ \A k \in 1 .. Len(nb.ret[r]) :
             LET x == execute_roles(nb.s, nb.calls[k].sign)
                 l == nb.ret[r][k].log
             IN  /\ nb.ret[r][k].v = NbExpected(k)[r]
                 /\ \A bid \in DOMAIN x.recvBlocks[r] :
                        Cardinality(EventsOf(l, "unpack", bid)) = 1
                 /\ Cardinality(Events(l, "unpack")) = nBlocks(x.recv_nBlock[r])
                 /\ \A i, j \in Events(l, "unpack") :
                        (l[i].arg = "self" /\ l[j].arg # "self") => i < j
                 /\ \A i \in Events(l, "unpack") :
                        (l[i].arg = "self") = (x.recvBlocks[r][l[i].ip].destRank = r)
                 /\ \A bid \in DOMAIN nb.ret[r][k].rreq :
                        nb.ret[r][k].rreq[bid] \in {"null", "inactive"}
        /\ nb.pc[r].ph \in {"begin", "done"} =>
             /\ \A bid \in DOMAIN nb.sreq[r] : nb.sreq[r][bid] \in {"null", "inactive"}
             /\ \A m \in nb.msgs : m.src = r => m.eager

C16_Witness ==
    /\ nb # <<>>
    /\ \A r \in Ranks : nb.pc[r].ph = "done"
    /\ \E r \in Ranks :
         LET l == nb.ret[r][1].log
         IN  /\ \E i \in Events(l, "unpack") : l[i].arg = "self"
             /\ \E i, j \in Events(l, "unpack") :
                    i < j /\ l[i].arg = "MPI_Waitany" /\ l[i].ip > l[j].ip

NbDone == \A r \in Ranks : nb.pc[r].ph = "done"

\* C17: when every rank calls execute() with the same directions, every
\* call returns on every rank, also when a rank has started its next call
\* while another one is still waiting in the call before.
C17_Returns == <>NbDone

\* a rank waits for a block in its first call while the other rank has
\* started the backward execution of the same transpose and a message of
\* that execution is on its way to the waiting rank
C17_Witness ==
    /\ nb # <<>>
    /\ \E r, q \in Ranks :
         /\ nb.pc[q].ci = 1 /\ nb.pc[q].ph = "unpack"
         /\ \E bid \in DOMAIN nb.rreq[q] : nb.rreq[q][bid] = "active"
         /\ nb.pc[r].ci = 2 /\ InCall(r)
         /\ nb.calls[2].comm = nb.calls[1].comm
         /\ \E m \in nb.msgs :
              /\ m.src = r /\ m.dst = q
              /\ m.seq >= nb.seq[r] - nBlocks(NbRoles(r).send_nBlock[r])
              /\ m.tag \in DOMAIN nb.rreq[q]

\* the doubles of the memory of rank r written by the copies of the
\* received blocks
Covered(x, r) ==
    UNION {{w.idx : w \in unpack(<<>>, x.topo_in[r].axis, x.topo_out[r], x.ostart[r],
                                 nb.s.nByBlock, x.recv_nBlock[r], bid,
                                 x.recvBlocks[r][bid].size)} :
              bid \in DOMAIN x.recvBlocks[r]}

C29_RotInside ==
    (mem # <<>> /\ mem.pc \in {"solved", "aborted"}) =>
        /\ mem.touched \subseteq 0 .. topo_memsize(mem.topo_hat, mem.lda) - 1
        /\ mem.touched \subseteq 0 .. allocate_data_size(mem) - 1
        /\ (mem.type = "ROT" /\ mem.lda # 3) =>
               (mem.pc = "aborted" /\ mem.touched = {})

\* ---- the all-to-all switch ----
\* the send and receive extents of the rank r in the direction id
Extents(s, r, id) ==
    {s.iend[r][id] - s.istart[r][id], s.oend[r][id] - s.ostart[r][id]}

Divides(d, e) == d > 0 /\ e % d = 0

\* C22: in every direction the block extent set by the constructor is
\* positive, divides the send extent and the receive extent of every rank,
\* and is the greatest of the integers that do.
C22_BlockExtent ==
    a2a # <<>> =>
      \A id \in Dirs :
        /\ a2a.s.nByBlock[id] > 0
        /\ \A r \in Ranks : \A e \in Extents(a2a.s, r, id) :
               Divides(a2a.s.nByBlock[id], e)
        /\ \A d \in 1 .. A2aExtent :
               (\A r \in Ranks : \A e \in Extents(a2a.s, r, id) : Divides(d, e))
                  => d <= a2a.s.nByBlock[id]

\* the ranks on which setup_buffers has returned
BuffersSet(r) == a2a # <<>> /\ a2a.pc[r] \notin {"constructed", "failed"}

\* C23: once setup_buffers has returned on a rank, every block of either
\* side has in the buffer the offset start[r] of its destination r, and
\* start[r] is the sum of count[0 .. r-1].
C23_Offsets ==
    \A r \in Ranks :
      BuffersSet(r) =>
        LET o == a2a.obj[r]
        IN  /\ \A ir \in 0 .. o.subsize - 1 :
                 /\ o.i2o_start[ir] = SumTo(o.i2o_count, ir - 1)
                 /\ o.o2i_start[ir] = SumTo(o.o2i_count, ir - 1)
            /\ \A b \in DOMAIN o.sendBuf :
                 o.sendBuf[b] = o.i2o_start[newRanks(a2a.s, a2a.s.iBlocks[r][b].destRank)]
            /\ \A b \in DOMAIN o.recvBuf :
                 o.recvBuf[b] = o.o2i_start[newRanks(a2a.s, a2a.s.oBlocks[r][b].destRank)]

\* C24: the doubles of the buffer written for two different blocks of a
\* rank in one execution are different doubles.
C24_Disjoint ==
    a2a # <<>> =>
      \A r \in Ranks : \A b, c \in DOMAIN a2a.packed[r] :
          b # c => a2a.packed[r][b] \cap a2a.packed[r][c] = {}

\* C25: the ranks of one _subcomm that are in the communication of the
\* same execution have called the same one, MPI_Alltoall or MPI_Alltoallv.
C25_SameCall ==
    a2a # <<>> =>
      \A r \in Ranks : \A q \in subcomm_ranks(a2a.s, {r}) :
          (a2a.n[q] = a2a.n[r]
           /\ a2a.pc[r] \in {"MPI_Alltoall", "MPI_Alltoallv"}
           /\ a2a.pc[q] \in {"MPI_Alltoall", "MPI_Alltoallv"})
          => a2a.pc[q] = a2a.pc[r]

\* ---- the switches between topologies ----
\* the doubles of the memory of a topology that hold a point of the local
\* grid (the others are the padding of the fast direction)
locLayout(t) ==
    {localIndex(t.axis, i0, i1, i2, t.axis, t.nmem, t.nf) + c :
        i0 \in 0 .. t.nloc[t.axis] - 1,
        i1 \in 0 .. t.nloc[(t.axis + 1) % 3] - 1,
        i2 \in 0 .. t.nloc[(t.axis + 2) % 3] - 1,
        c \in 0 .. t.nf - 1}

\* the input grid, once shifted, lies inside the output grid
Contained(s) ==
    \A id \in Dirs :
        /\ s.shift[id] >= 0
        /\ s.topo_in[0].nglob[id] + s.shift[id] <= s.topo_out[0].nglob[id]

\* the executions done are one FORWARD then one BACKWARD
ForwardBackward ==
    /\ Len(xfer) = 2
    /\ xfer[1].sign = "FLUPS_FORWARD"
    /\ xfer[2].sign = "FLUPS_BACKWARD"

\* C1: the executions of a switch complete, and once it has been executed
\* FORWARD then BACKWARD on a buffer every element of the input layout has
\* its original value on every rank. Stated for the switches whose input
\* grid lies inside the output grid, the ones that drop no point.
C1_RoundTrip ==
    (Len(xfer) >= 1 /\ Contained(sw)) =>
        /\ swpc = "executed"
        /\ ForwardBackward =>
               \A r \in Ranks : \A idx \in locLayout(sw.topo_in[r]) :
                   v[r][idx] = InitialData(sw)[r][idx]

\* the local indices of direction id of the topology t whose image, once
\* shifted, is a point of the other topology
Inside(t, shift, other, id) ==
    {i \in 0 .. t.nloc[id] - 1 :
        /\ cmpt_start_id(t, id) + i + shift[id] >= 0
        /\ cmpt_start_id(t, id) + i + shift[id] < other.nglob[id]}

\* C21: on both sides of a switch, on every rank and in every direction, the
\* range [start, end) given by cmpt_intersect_id holds exactly the local
\* indices whose shifted image lies in [0, nglob) of the other topology; it
\* is empty when there is none (the output side is computed with the
\* opposite shift, which is negative or zero).
C21_Intersect ==
    \A r \in Ranks : \A id \in Dirs :
        /\ {i \in 0 .. MaxExtent : sw.istart[r][id] <= i /\ i < sw.iend[r][id]}
              = Inside(sw.topo_in[r], sw.shift, sw.topo_out[r], id)
        /\ {i \in 0 .. MaxExtent : sw.ostart[r][id] <= i /\ i < sw.oend[r][id]}
              = Inside(sw.topo_out[r], [d \in Dirs |-> 0 - sw.shift[d]], sw.topo_in[r], id)

\* C2: in a switch that was built, every send block b of a rank R, of
\* destination S, has on S exactly one receive block whose source is R and
\* whose slot is the tag of b, and the two blocks have the same size; and on
\* every rank the self blocks counted on the input side are as many as the
\* ones counted on the output side.
C2_Reciprocal ==
    swpc # "aborted" =>
        /\ \A R \in Ranks : \A b \in DOMAIN sw.iBlocks[R] :
               LET S == sw.iBlocks[R][b].destRank
               IN  Cardinality({c \in DOMAIN sw.oBlocks[S] :
                                   /\ c = sw.iBlocks[R][b].destTag
                                   /\ sw.oBlocks[S][c].destRank = R
                                   /\ sw.oBlocks[S][c].size = sw.iBlocks[R][b].size}) = 1
        /\ \A r \in Ranks : sw.selfBlockN[r] = sw.oselfBlockN[r]

\* the sum of the counts of a rank, and of all the ranks
RankTotal(count, r) == SumTo(count[r], CommSize - 1)

Total(count) == SumTo([r \in Ranks |-> RankTotal(count, r)], CommSize - 1)

\* C3: in every execution of a switch, the amounts sent summed over the
\* ranks equal the amounts received summed over the ranks, and the count a
\* rank S expects from a rank R is the count that R sends to S.
C3_Conservation ==
    \A k \in 1 .. Len(xfer) :
        /\ Total(xfer[k].send_count) = Total(xfer[k].recv_count)
        /\ \A R \in Ranks, S \in Ranks :
               xfer[k].recv_count[S][R] = xfer[k].send_count[R][S]

IsPermutation(order) == {order[i] : i \in MetisRanks} = MetisRanks

\* the ranks of each partition of part have consecutive new ranks
Consecutive(order, part) ==
    \A ip \in {part[i] : i \in MetisRanks} :
        LET new == {order[i] : i \in {j \in MetisRanks : part[j] = ip}}
        IN  \A a \in new, b \in new : \A c \in a .. b : c \in new

\* C11: when _reorder_metis is done, order is a permutation of the ranks:
\* the identity when no attempt returned partitions of exactly the requested
\* sizes (or with a single node), and otherwise an order that gives the
\* ranks of each partition of such an attempt consecutive new ranks.
C11_Order ==
    metis # <<>> /\ metis.pc = "done" =>
        /\ IsPermutation(metis.order)
        /\ IF metis.exact = {}
           THEN metis.order = [i \in MetisRanks |-> i]
           ELSE \E part \in metis.exact : Consecutive(metis.order, part)

\* the partition part has exactly the requested sizes
ExactSizes(m, part) == \A ip \in DOMAIN m.nodes : partSize(part, ip) = m.nodes[ip]

\* C30: an attempt of _reorder_metis is accepted (it ends the loop) exactly
\* when the partition METIS returned in that attempt has the requested
\* sizes, whatever the attempts before it returned.
C30_Accept ==
    [][\A part \in Partitions(metis) :
          (MetisAttempt(part) /\ metis' = metis_attempt(metis, part)) =>
              (metis'.pc = "done" <=> ExactSizes(metis, part))]_vars

====
